---- MODULE Spec2Model ----
(***************************************************************************)
(* Attendance punch and session-lifecycle engine of the attendance API:   *)
(* the punch endpoint, the auto-close scheduler job and the session        *)
(* maintenance endpoints, over the job_activity table.                     *)
(*                                                                         *)
(* Instants are minutes of absolute (UTC) time.  The connection pool runs  *)
(* with autocommit, so every SQL statement is atomic; a handler that reads *)
(* and then writes is two steps, and the steps of different handlers       *)
(* interleave.  The bookkeeping columns created_at and updated_at are not  *)
(* modelled.                                                               *)
(***************************************************************************)
EXTENDS Integers, FiniteSets, Sequences, TLC

\* ---------------------------------------------------------------- bounds
MaxInstants == 4       \* instants the clock passes through
MaxSessions == 2       \* rows the job_activity table may ever receive
MaxAdminOps == 1       \* administrative requests a run may contain
MaxAttempts == 5       \* largest max_attempts a connection check is called with
MaxRequests == 2       \* absence requests ever created

\* ------------------------------------------------------ program constants
NULL == -1             \* SQL NULL / Python None
ZERO_DATE == 0         \* legacy '0000-00-00 00:00:00' value of time_out
MinutesPerDay == 1440
TzOffsetMinutes == 480 \* settings.TIMEZONE = Asia/Manila, UTC+8, no DST
CutoffMinuteOfDay == 1380  \* time(23, 0)
MinDurationMinutes == 10
AutoFillMinutes == 30  \* timedelta(minutes=30)
NullNotes == "NULL"
EarlyNotes == "Timed out too early (< 10 mins)"
AdminNotes == "invalidated by manager"
NoJob == 0

\* Local wall-clock minutes of the day at which something happens: 22:50,
\* before the cutoff, and 23:10, after it.  Any number of requests may
\* arrive at one instant.
TimesOfDay == <<1370, 1390>>

Workers == {1}         \* request-handling tasks serving the punch endpoint
Accounts == {1, 2}     \* accounts with role student or manager
\* School ids presented to the punch endpoint: the one of account 1, and 3,
\* which belongs to no student or manager account.  Account 2 owns rows
\* but stays away from the terminal.
SchoolIds == {1, 3}
Managed == {1}         \* accounts the directory operations are applied to
Jobs == {1, 2}         \* rows of the jobs table

\* ------------------------------------------------- clock and time zone
\* datetime.astimezone(tz).date(): local calendar day of an absolute instant
LocalDateOf(t) == (t + TzOffsetMinutes) \div MinutesPerDay

\* tz.localize(datetime.combine(date, time(23, 0))).astimezone(UTC)
LocalCutoffInstant(d) == d * MinutesPerDay + CutoffMinuteOfDay - TzOffsetMinutes

LocalInstant(d, m) == d * MinutesPerDay + m - TzOffsetMinutes

\* the k-th instant: 22:50 and 23:10 of day 1, of day 2, ...
InstantAt(k) ==
    LocalInstant(1 + ((k - 1) \div Len(TimesOfDay)),
                 TimesOfDay[1 + ((k - 1) % Len(TimesOfDay))])

Instants == {InstantAt(k) : k \in 1..MaxInstants}

FirstInstant == CHOOSE t \in Instants : \A u \in Instants : t <= u

\* CronTrigger(hour=23, minute=0).get_next_fire_time: the first 23:00 local
\* instant strictly after t
NextFireTime(t) ==
    IF t < LocalCutoffInstant(LocalDateOf(t))
    THEN LocalCutoffInstant(LocalDateOf(t))
    ELSE LocalCutoffInstant(LocalDateOf(t) + 1)

VARIABLES
    clock,          \* datetime.now(timezone.utc)
    sessions,       \* job_activity: id -> row
    nextId,         \* AUTO_INCREMENT of job_activity.id
    suspended,      \* accounts.suspended_at IS NOT NULL, per account
    jobOf,          \* account_jobs: account -> job id or NoJob
    pc,             \* per worker: position inside punch()
    req,            \* per worker: live locals of punch()
    response,       \* status punch() answered with in the step just taken
    adm,            \* position and locals of the maintenance handler in flight
    call,           \* maintenance request received in the step just taken
    admOps,         \* administrative requests received so far
    nextRunTime,    \* next fire time of the scheduler job
    adjustments,    \* time_adjustments: id -> row
    view,           \* what a reporting endpoint returned in the step just taken
    sweeps,         \* runs of auto_close_sessions in progress: their cutoffs
    probe,          \* position and locals of a connection check in flight
    requests        \* schedule_overrides: id -> row

vars == <<clock, sessions, nextId, suspended, jobOf, pc, req, response,
          adm, call, admOps, nextRunTime, adjustments, view, sweeps,
          probe, requests>>

\* the state that the request handlers of the attendance endpoints never
\* read or write
apart == <<sweeps, probe, requests>>

\* ----------------------------------------------------------- the store
\* (time_out IS NULL OR CAST(time_out AS CHAR) = '0000-00-00 00:00:00')
IsOpen(s) == s.time_out = NULL \/ s.time_out = ZERO_DATE

OpenIdsOf(store, a) ==
    {i \in DOMAIN store : store[i].account = a /\ IsOpen(store[i])}

\* A lookup of the most recent session, taken as active when it is open
SelectMostRecentTimeIn(store, a) ==
    LET S == {i \in DOMAIN store : store[i].account = a}
    IN IF S = {} THEN NULL
       ELSE LET i == CHOOSE i \in S :
                        \A j \in S : store[j].time_in <= store[i].time_in
            IN IF IsOpen(store[i]) THEN store[i].time_in ELSE NULL

\* SELECT time_in ... WHERE account_id = a AND open ORDER BY time_in DESC
\* LIMIT 1: the time_in of the row, or NULL when there is no row
SelectActiveTimeIn(store, a) ==
    IF OpenIdsOf(store, a) = {} THEN NULL
    ELSE LET i == CHOOSE i \in OpenIdsOf(store, a) :
                     \A j \in OpenIdsOf(store, a) :
                         store[j].time_in <= store[i].time_in
         IN store[i].time_in

\* SELECT ... FROM accounts WHERE school_id = sid AND role IN (student,
\* manager): the account id, or NULL
AccountBySchoolId(sid) == IF sid \in Accounts THEN sid ELSE NULL

NoReq == [acct |-> NULL, now |-> NULL, inval |-> FALSE, job |-> NoJob]

\* ActivityUpdate / BulkAdjustRequest with no field provided
NoData == [time_in |-> NULL, time_out |-> NULL, invalidation_notes |-> NullNotes]

\* the request a maintenance endpoint receives: path id or data.ids, and
\* the fields of the body
NoCall == [op |-> "none", id |-> NULL, ids |-> {}, data |-> NoData]

Call(op, id, ids, data) == [op |-> op, id |-> id, ids |-> ids, data |-> data]

\* no connection check is running
NoProbe == [pc |-> "none"]

\* no reporting endpoint answered in this step
NoView == [op |-> "none"]

\* pc, id, ids, empty, time_in and data are locals of the handler; seen is
\* a history field, the ids that existed when bulk_invalidate issued its
\* first statement, which no handler reads
AdmIdle ==
    [pc |-> "idle", id |-> NULL, ids |-> {}, empty |-> FALSE,
     time_in |-> NULL, data |-> NoData, seen |-> {}]

NewSession(a, t, j) ==
    [account |-> a, time_in |-> t, time_out |-> NULL,
     invalidated_at |-> NULL, invalidation_notes |-> NullNotes,
     job |-> j, auto_closed |-> FALSE]

\* A row written by an earlier version of the system, with the zero date
\* in time_out meaning "still open"
LegacySession(a) ==
    [account |-> a, time_in |-> FirstInstant, time_out |-> ZERO_DATE,
     invalidated_at |-> NULL, invalidation_notes |-> NullNotes,
     job |-> 1, auto_closed |-> FALSE]

Init ==
    /\ clock = FirstInstant
    /\ \/ sessions = <<>> /\ nextId = 1
       \/ \E a \in Accounts :
              sessions = (1 :> LegacySession(a)) /\ nextId = 2
    /\ suspended = [a \in Accounts |-> FALSE]
    /\ jobOf = [a \in Accounts |-> 1]
    /\ pc = [w \in Workers |-> "idle"]
    /\ req = [w \in Workers |-> NoReq]
    /\ response = "none"
    /\ adm = AdmIdle
    /\ call = NoCall
    /\ admOps = 0
    /\ nextRunTime = NextFireTime(FirstInstant)
    /\ adjustments = <<>>
    /\ view = NoView
    /\ sweeps = <<>>
    /\ probe = NoProbe
    /\ requests = <<>>

\* ---------------------------------------------------------------- clock
\* Instants are at least ten minutes apart and a handler runs for far less:
\* the clock moves on only while no handler is between two database calls.
Quiescent ==
    /\ \A w \in Workers : pc[w] = "idle"
    /\ adm.pc = "idle"

Tick ==
    /\ Quiescent
    /\ \E t \in Instants : t > clock /\ clock' = t
    /\ response' = "none"
    /\ call' = NoCall
    /\ view' = NoView
    /\ UNCHANGED apart
    /\ adjustments' = adjustments
    /\ UNCHANGED <<sessions, nextId, suspended, jobOf, pc, req, adm, admOps,
                   nextRunTime>>

\* ------------------------------------------------ account directory ops
\* accounts.py delete_account (soft delete): UPDATE accounts SET
\* suspended_at = now
DeleteAccount(a) ==
    /\ ~suspended[a]
    /\ admOps < MaxAdminOps
    /\ admOps' = admOps + 1
    /\ suspended' = [suspended EXCEPT ![a] = TRUE]
    /\ response' = "none"
    /\ call' = NoCall
    /\ view' = NoView
    /\ UNCHANGED apart
    /\ adjustments' = adjustments
    /\ UNCHANGED <<clock, sessions, nextId, jobOf, pc, req, adm, nextRunTime>>

\* jobs.py unassign_job: DELETE FROM account_jobs WHERE ... account_id = a
UnassignJob(a) ==
    /\ jobOf[a] # NoJob
    /\ admOps < MaxAdminOps
    /\ admOps' = admOps + 1
    /\ jobOf' = [jobOf EXCEPT ![a] = NoJob]
    /\ response' = "none"
    /\ call' = NoCall
    /\ view' = NoView
    /\ UNCHANGED apart
    /\ adjustments' = adjustments
    /\ UNCHANGED <<clock, sessions, nextId, suspended, pc, req, adm,
                   nextRunTime>>

\* jobs.py assign_job: an account that already has an assignment is
\* refused ("Please unassign first"), otherwise INSERT INTO account_jobs.
\* The refusal changes nothing and is left out.
AssignJob(a, j) ==
    /\ jobOf[a] = NoJob
    /\ admOps < MaxAdminOps
    /\ admOps' = admOps + 1
    /\ jobOf' = [jobOf EXCEPT ![a] = j]
    /\ response' = "none"
    /\ call' = NoCall
    /\ view' = NoView
    /\ UNCHANGED apart
    /\ adjustments' = adjustments
    /\ UNCHANGED <<clock, sessions, nextId, suspended, pc, req, adm,
                   nextRunTime>>

\* ---------------------------------------------------------------- punch
\* raise HTTPException / return PunchResponse: the handler ends
Respond(w, status) ==
    /\ pc' = [pc EXCEPT ![w] = "idle"]
    /\ req' = [req EXCEPT ![w] = NoReq]
    /\ response' = status

Goto(w, label, r) ==
    /\ pc' = [pc EXCEPT ![w] = label]
    /\ req' = [req EXCEPT ![w] = r]
    /\ response' = "none"

\* lines 102-113, the strict day check: a candidate whose time_in lies on
\* another local calendar day than now is discarded
ActiveSession(found, now) ==
    IF found # NULL /\ LocalDateOf(found) # LocalDateOf(now)
    THEN NULL ELSE found

\* A time-out path without the early-timeout warning
TimeOutPathNoWarning(w, r, tin, force) == Goto(w, "update", r)

\* lines 116-134: the time-out path, with the minimum-duration check
TimeOutPath(w, r, tin, force) ==
    IF r.now - tin < MinDurationMinutes
    THEN IF ~force
         THEN Respond(w, "EarlyTimeoutWarning")
         ELSE Goto(w, "update", [r EXCEPT !.inval = TRUE])
    ELSE Goto(w, "update", r)

\* A time-in path that does not look at the job assignment
TimeInPathNoJobCheck(w, r, job) == Goto(w, "insert", [r EXCEPT !.job = job])

\* lines 158-176: the time-in path needs a job assignment
TimeInPath(w, r, job) ==
    IF job = NoJob
    THEN Respond(w, "AccountJobless")
    ELSE Goto(w, "insert", [r EXCEPT !.job = job])

\* An account check that lets suspended accounts through
AccountCheckNoSuspension(a) == IF a = NULL THEN "AccountNotFound" ELSE "ok"

\* lines 69-79: an unknown school id and a suspended account are rejected
AccountCheck(a) ==
    IF a = NULL THEN "AccountNotFound"
    ELSE IF suspended[a] THEN "AccountSuspended"
    ELSE "ok"

\* lines 59-134 and 161-176, the reads of punch(): resolve the school id,
\* reject unknown and suspended accounts, read the latest open session,
\* take now, apply the strict day check, then follow the time-out or the
\* time-in path up to its write.  The reads are one step: the account and
\* job lookups commute with every step of another handler that touches
\* job_activity.
PunchRead(w, sid, force) ==
    /\ pc[w] = "idle"
    /\ LET a == AccountBySchoolId(sid)
           now == clock
           tin == ActiveSession(SelectActiveTimeIn(sessions, a), now)
           r == [NoReq EXCEPT !.acct = a, !.now = now]
       IN IF AccountCheck(a) # "ok" THEN Respond(w, AccountCheck(a))
          ELSE IF tin # NULL THEN TimeOutPath(w, r, tin, force)
          ELSE TimeInPath(w, r, jobOf[a])
    /\ call' = NoCall
    /\ view' = NoView
    /\ UNCHANGED apart
    /\ adjustments' = adjustments
    /\ UNCHANGED <<clock, sessions, nextId, suspended, jobOf, adm, admOps,
                   nextRunTime>>

\* A time-out update that never invalidates
PunchUpdateRowNoInvalidation(s, a, now, inval) ==
    IF s.account = a /\ IsOpen(s) THEN [s EXCEPT !.time_out = now] ELSE s

\* A time-out update scoped by the account only
PunchUpdateRowEveryRow(s, a, now, inval) ==
    IF s.account = a
    THEN IF inval
         THEN [s EXCEPT !.time_out = now, !.invalidated_at = now,
                        !.invalidation_notes = EarlyNotes]
         ELSE [s EXCEPT !.time_out = now]
    ELSE s

\* lines 138-145: UPDATE job_activity SET time_out = now [, invalidated_at,
\* invalidation_notes] WHERE account_id = a AND open
PunchUpdateRow(s, a, now, inval) ==
    IF s.account = a /\ IsOpen(s)
    THEN IF inval
         THEN [s EXCEPT !.time_out = now, !.invalidated_at = now,
                        !.invalidation_notes = EarlyNotes]
         ELSE [s EXCEPT !.time_out = now]
    ELSE s

PunchUpdate(w) ==
    /\ pc[w] = "update"
    /\ sessions' = [i \in DOMAIN sessions |->
                      PunchUpdateRow(sessions[i], req[w].acct, req[w].now,
                                     req[w].inval)]
    /\ Respond(w, "time_out")
    /\ call' = NoCall
    /\ view' = NoView
    /\ UNCHANGED apart
    /\ adjustments' = adjustments
    /\ UNCHANGED <<clock, nextId, suspended, jobOf, adm, admOps, nextRunTime>>

\* lines 186-193: INSERT INTO job_activity (..., time_in = now, NULL, ...)
PunchInsert(w) ==
    /\ pc[w] = "insert"
    /\ nextId <= MaxSessions
    /\ sessions' = [i \in DOMAIN sessions \cup {nextId} |->
                      IF i = nextId
                      THEN NewSession(req[w].acct, req[w].now, req[w].job)
                      ELSE sessions[i]]
    /\ nextId' = nextId + 1
    /\ Respond(w, "time_in")
    /\ call' = NoCall
    /\ view' = NoView
    /\ UNCHANGED apart
    /\ adjustments' = adjustments
    /\ UNCHANGED <<clock, suspended, jobOf, adm, admOps, nextRunTime>>

\* -------------------------------------------------- session maintenance
\* attendance.py lines 692-710: invalidate_activity reads the row and
\* decides whether time_out is empty
InvalidateRead(id) ==
    /\ adm.pc = "idle"
    /\ admOps < MaxAdminOps
    /\ id \in DOMAIN sessions
    /\ adm' = [AdmIdle EXCEPT !.pc = "invalidate", !.id = id,
                              !.empty = IsOpen(sessions[id]),
                              !.time_in = sessions[id].time_in]
    /\ admOps' = admOps + 1
    /\ response' = "none"
    /\ call' = Call("invalidate", id, {}, NoData)
    /\ view' = NoView
    /\ UNCHANGED apart
    /\ adjustments' = adjustments
    /\ UNCHANGED <<clock, sessions, nextId, suspended, jobOf, pc, req,
                   nextRunTime>>

\* An invalidation that never fills in time_out
InvalidateRowNoFill(s, empty, time_in, now, notes) ==
    [s EXCEPT !.invalidated_at = now, !.invalidation_notes = notes]

\* lines 712-730: one UPDATE ... WHERE id = %s, with or without time_out
InvalidateRow(s, empty, time_in, now, notes) ==
    IF empty
    THEN [s EXCEPT !.invalidated_at = now, !.invalidation_notes = notes,
                   !.time_out = time_in + AutoFillMinutes]
    ELSE [s EXCEPT !.invalidated_at = now, !.invalidation_notes = notes]

InvalidateWrite ==
    /\ adm.pc = "invalidate"
    /\ sessions' = [i \in DOMAIN sessions |->
                      IF i = adm.id
                      THEN InvalidateRow(sessions[i], adm.empty, adm.time_in,
                                         clock, AdminNotes)
                      ELSE sessions[i]]
    /\ adm' = AdmIdle
    /\ response' = "none"
    /\ call' = NoCall
    /\ view' = NoView
    /\ UNCHANGED apart
    /\ adjustments' = adjustments
    /\ UNCHANGED <<clock, nextId, suspended, jobOf, pc, req, admOps,
                   nextRunTime>>

\* A bulk close that overwrites the time_out of closed sessions too
BulkCloseRowAll(s, now) == [s EXCEPT !.time_out = now]

\* lines 855-866: UPDATE ... SET time_out = now WHERE id IN (ids) AND open
BulkCloseRow(s, now) == IF IsOpen(s) THEN [s EXCEPT !.time_out = now] ELSE s

\* Bulk handlers without the empty-list return
EmptyIdsIgnored(ids) == FALSE

\* lines 849-850, the same in every bulk handler: if not data.ids: return
\* {"count": 0}
EmptyIds(ids) == ids = {}

\* lines 840-868
BulkClose(ids) ==
    /\ adm.pc = "idle"
    /\ admOps < MaxAdminOps
    /\ IF EmptyIds(ids)
       THEN sessions' = sessions /\ response' = "count0"
       ELSE /\ sessions' = [i \in DOMAIN sessions |->
                              IF i \in ids
                              THEN BulkCloseRow(sessions[i], clock)
                              ELSE sessions[i]]
            /\ response' = "none"
    /\ admOps' = admOps + 1
    /\ call' = Call("bulk_close", NULL, ids, NoData)
    /\ view' = NoView
    /\ UNCHANGED apart
    /\ adjustments' = adjustments
    /\ UNCHANGED <<clock, nextId, suspended, jobOf, pc, req, adm, nextRunTime>>

\* ------------------------------------- further session maintenance
\* Values a manager may send as time_in / time_out of ActivityUpdate and
\* BulkAdjustRequest, and the requests built from them.  NULL and NullNotes
\* stand for a field that is not provided.
EditInstants == {InstantAt(2)}

UpdateRequests ==
    [time_in : {NULL} \cup EditInstants,
     time_out : {NULL} \cup EditInstants,
     invalidation_notes : {NullNotes, AdminNotes}]

AdjustRequests == {d \in UpdateRequests : d.invalidation_notes = NullNotes}

\* An update_activity that accepts a request without fields
UpdateCheckIgnoresFields(id, data) ==
    IF id \notin DOMAIN sessions THEN "SessionNotFound" ELSE "ok"

\* lines 615-645: update_activity looks the row up (404 "Activity not
\* found"), then collects the provided fields (400 "No fields to update")
UpdateCheck(id, data) ==
    IF id \notin DOMAIN sessions THEN "SessionNotFound"
    ELSE IF data = NoData THEN "NoFieldsProvided"
    ELSE "ok"

\* lines 603-645
UpdateActivityRead(id, data) ==
    /\ adm.pc = "idle"
    /\ admOps < MaxAdminOps
    /\ IF UpdateCheck(id, data) # "ok"
       THEN adm' = adm /\ response' = UpdateCheck(id, data)
       ELSE /\ adm' = [AdmIdle EXCEPT !.pc = "update", !.id = id,
                                      !.data = data]
            /\ response' = "none"
    /\ admOps' = admOps + 1
    /\ call' = Call("update", id, {}, data)
    /\ view' = NoView
    /\ UNCHANGED apart
    /\ adjustments' = adjustments
    /\ UNCHANGED <<clock, sessions, nextId, suspended, jobOf, pc, req,
                   nextRunTime>>

\* An update that moves time_in along with a new time_out
UpdateRowMovesTimeIn(s, data) ==
    [s EXCEPT
       !.time_in = IF data.time_out # NULL THEN data.time_out ELSE @,
       !.time_out = IF data.time_out # NULL THEN data.time_out ELSE @]

\* An update that clears a time_out that is not provided
UpdateRowClearsTimeOut(s, data) ==
    [s EXCEPT
       !.time_in = IF data.time_in # NULL THEN data.time_in ELSE @,
       !.time_out = data.time_out]

\* lines 626-655 and 970-998: SET time_in = %s, time_out = %s,
\* invalidation_notes = %s, each only when provided
UpdateRow(s, data) ==
    [s EXCEPT
       !.time_in = IF data.time_in # NULL THEN data.time_in ELSE @,
       !.time_out = IF data.time_out # NULL THEN data.time_out ELSE @,
       !.invalidation_notes =
           IF data.invalidation_notes # NullNotes
           THEN data.invalidation_notes ELSE @]

\* lines 652-655: UPDATE job_activity SET ... WHERE id = %s
UpdateActivityWrite ==
    /\ adm.pc = "update"
    /\ sessions' = [i \in DOMAIN sessions |->
                      IF i = adm.id THEN UpdateRow(sessions[i], adm.data)
                      ELSE sessions[i]]
    /\ adm' = AdmIdle
    /\ response' = "none"
    /\ call' = NoCall
    /\ view' = NoView
    /\ UNCHANGED apart
    /\ adjustments' = adjustments
    /\ UNCHANGED <<clock, nextId, suspended, jobOf, pc, req, admOps,
                   nextRunTime>>

\* lines 957-1000: bulk_adjust
BulkAdjust(ids, data) ==
    /\ adm.pc = "idle"
    /\ admOps < MaxAdminOps
    /\ IF EmptyIds(ids)
       THEN sessions' = sessions /\ response' = "count0"
       ELSE IF data = NoData
            THEN sessions' = sessions /\ response' = "NoFieldsProvided"
            ELSE /\ sessions' = [i \in DOMAIN sessions |->
                                   IF i \in ids
                                   THEN UpdateRow(sessions[i], data)
                                   ELSE sessions[i]]
                 /\ response' = "none"
    /\ admOps' = admOps + 1
    /\ call' = Call("bulk_adjust", NULL, ids, data)
    /\ view' = NoView
    /\ UNCHANGED apart
    /\ adjustments' = adjustments
    /\ UNCHANGED <<clock, nextId, suspended, jobOf, pc, req, adm, nextRunTime>>

\* lines 793-802: revalidate_activity looks the row up
RevalidateRead(id) ==
    /\ adm.pc = "idle"
    /\ admOps < MaxAdminOps
    /\ IF id \notin DOMAIN sessions
       THEN adm' = adm /\ response' = "SessionNotFound"
       ELSE /\ adm' = [AdmIdle EXCEPT !.pc = "revalidate", !.id = id]
            /\ response' = "none"
    /\ admOps' = admOps + 1
    /\ call' = Call("revalidate", id, {}, NoData)
    /\ view' = NoView
    /\ UNCHANGED apart
    /\ adjustments' = adjustments
    /\ UNCHANGED <<clock, sessions, nextId, suspended, jobOf, pc, req,
                   nextRunTime>>

\* A revalidation that also reopens the session
RevalidateRowReopens(s) ==
    [s EXCEPT !.invalidated_at = NULL, !.invalidation_notes = NullNotes,
              !.time_out = NULL]

\* lines 805-812 and 923-930: SET invalidated_at = NULL,
\* invalidation_notes = NULL
RevalidateRow(s) ==
    [s EXCEPT !.invalidated_at = NULL, !.invalidation_notes = NullNotes]

RevalidateWrite ==
    /\ adm.pc = "revalidate"
    /\ sessions' = [i \in DOMAIN sessions |->
                      IF i = adm.id THEN RevalidateRow(sessions[i])
                      ELSE sessions[i]]
    /\ adm' = AdmIdle
    /\ response' = "none"
    /\ call' = NoCall
    /\ view' = NoView
    /\ UNCHANGED apart
    /\ adjustments' = adjustments
    /\ UNCHANGED <<clock, nextId, suspended, jobOf, pc, req, admOps,
                   nextRunTime>>

\* lines 910-933: bulk_revalidate
BulkRevalidate(ids) ==
    /\ adm.pc = "idle"
    /\ admOps < MaxAdminOps
    /\ IF EmptyIds(ids)
       THEN sessions' = sessions /\ response' = "count0"
       ELSE /\ sessions' = [i \in DOMAIN sessions |->
                              IF i \in ids THEN RevalidateRow(sessions[i])
                              ELSE sessions[i]]
            /\ response' = "none"
    /\ admOps' = admOps + 1
    /\ call' = Call("bulk_revalidate", NULL, ids, NoData)
    /\ view' = NoView
    /\ UNCHANGED apart
    /\ adjustments' = adjustments
    /\ UNCHANGED <<clock, nextId, suspended, jobOf, pc, req, adm, nextRunTime>>

\* A first statement that fills in time_out on every session of the set
BulkFillRowAll(s) == [s EXCEPT !.time_out = s.time_in + AutoFillMinutes]

\* A first statement that fills in nothing
BulkFillRowNone(s) == s

\* lines 886-894, the first statement of bulk_invalidate: SET time_out =
\* DATE_ADD(time_in, INTERVAL 30 MINUTE) WHERE id IN (ids) AND open
BulkFillRow(s) ==
    IF IsOpen(s) THEN [s EXCEPT !.time_out = s.time_in + AutoFillMinutes]
    ELSE s

\* lines 897-905, the second statement: SET invalidated_at = now,
\* invalidation_notes = notes WHERE id IN (ids)
BulkMarkRow(s, now, notes) ==
    [s EXCEPT !.invalidated_at = now, !.invalidation_notes = notes]

\* lines 871-894: bulk_invalidate up to and including its first statement
BulkInvalidateFill(ids) ==
    /\ adm.pc = "idle"
    /\ admOps < MaxAdminOps
    /\ IF EmptyIds(ids)
       THEN sessions' = sessions /\ adm' = adm /\ response' = "count0"
       ELSE /\ sessions' = [i \in DOMAIN sessions |->
                              IF i \in ids THEN BulkFillRow(sessions[i])
                              ELSE sessions[i]]
            /\ adm' = [AdmIdle EXCEPT !.pc = "bulk_invalidate", !.ids = ids,
                                      !.seen = DOMAIN sessions]
            /\ response' = "none"
    /\ admOps' = admOps + 1
    /\ call' = Call("bulk_invalidate", NULL, ids, NoData)
    /\ view' = NoView
    /\ UNCHANGED apart
    /\ adjustments' = adjustments
    /\ UNCHANGED <<clock, nextId, suspended, jobOf, pc, req, nextRunTime>>

\* lines 897-907: the second statement of bulk_invalidate
BulkInvalidateMark ==
    /\ adm.pc = "bulk_invalidate"
    /\ sessions' = [i \in DOMAIN sessions |->
                      IF i \in adm.ids
                      THEN BulkMarkRow(sessions[i], clock, AdminNotes)
                      ELSE sessions[i]]
    /\ adm' = AdmIdle
    /\ response' = "none"
    /\ call' = NoCall
    /\ view' = NoView
    /\ UNCHANGED apart
    /\ adjustments' = adjustments
    /\ UNCHANGED <<clock, nextId, suspended, jobOf, pc, req, admOps,
                   nextRunTime>>

\* lines 936-954: bulk_delete, DELETE FROM job_activity WHERE id IN (ids)
BulkDelete(ids) ==
    /\ adm.pc = "idle"
    /\ admOps < MaxAdminOps
    /\ IF EmptyIds(ids)
       THEN sessions' = sessions /\ response' = "count0"
       ELSE /\ sessions' = [i \in DOMAIN sessions \ ids |-> sessions[i]]
            /\ response' = "none"
    /\ admOps' = admOps + 1
    /\ call' = Call("bulk_delete", NULL, ids, NoData)
    /\ view' = NoView
    /\ UNCHANGED apart
    /\ adjustments' = adjustments
    /\ UNCHANGED <<clock, nextId, suspended, jobOf, pc, req, adm, nextRunTime>>

\* lines 766-775: delete_activity looks the row up
DeleteActivityRead(id) ==
    /\ adm.pc = "idle"
    /\ admOps < MaxAdminOps
    /\ IF id \notin DOMAIN sessions
       THEN adm' = adm /\ response' = "SessionNotFound"
       ELSE /\ adm' = [AdmIdle EXCEPT !.pc = "delete", !.id = id]
            /\ response' = "none"
    /\ admOps' = admOps + 1
    /\ call' = Call("delete", id, {}, NoData)
    /\ view' = NoView
    /\ UNCHANGED apart
    /\ adjustments' = adjustments
    /\ UNCHANGED <<clock, sessions, nextId, suspended, jobOf, pc, req,
                   nextRunTime>>

\* lines 777-780 and 950-953: DELETE FROM job_activity WHERE id IN (ids)
DeleteRows(store, ids) == [i \in DOMAIN store \ ids |-> store[i]]

\* lines 777-781: DELETE FROM job_activity WHERE id = %s
DeleteActivityWrite ==
    /\ adm.pc = "delete"
    /\ sessions' = DeleteRows(sessions, {adm.id})
    /\ adm' = AdmIdle
    /\ response' = "none"
    /\ call' = NoCall
    /\ view' = NoView
    /\ UNCHANGED apart
    /\ adjustments' = adjustments
    /\ UNCHANGED <<clock, nextId, suspended, jobOf, pc, req, admOps,
                   nextRunTime>>

\* ---------------------------------------------------- auto-close sweep
\* A sweep that marks the sessions but leaves them open
SweepUpdateRowKeepsOpen(s, cutoff) ==
    IF IsOpen(s) /\ s.time_in < cutoff
    THEN [s EXCEPT !.auto_closed = TRUE]
    ELSE s

\* A sweep that stamps its run time instead of the cutoff
SweepUpdateRowRunTime(s, cutoff) ==
    IF IsOpen(s) /\ s.time_in < cutoff
    THEN [s EXCEPT !.time_out = clock, !.auto_closed = TRUE]
    ELSE s

\* A sweep that closes every open session, whenever it started
SweepUpdateRowNoGuard(s, cutoff) ==
    IF IsOpen(s)
    THEN [s EXCEPT !.time_out = cutoff, !.auto_closed = TRUE]
    ELSE s

\* A sweep that writes properties anew instead of adding auto_closed to it
SweepUpdateRowDropsJob(s, cutoff) ==
    IF IsOpen(s) /\ s.time_in < cutoff
    THEN [s EXCEPT !.time_out = cutoff, !.auto_closed = TRUE, !.job = NoJob]
    ELSE s

\* scheduler.py lines 45-53: UPDATE ... SET time_out = cutoff, properties =
\* JSON_SET(properties, '$.auto_closed', true) WHERE open AND time_in <
\* cutoff; job_information inside properties stays as it is
SweepUpdateRow(s, cutoff) ==
    IF IsOpen(s) /\ s.time_in < cutoff
    THEN [s EXCEPT !.time_out = cutoff, !.auto_closed = TRUE]
    ELSE s

\* scheduler.py lines 21-53 and 61-71: the job runs at or after its fire
\* time, possibly late; it computes the 23:00 cutoff of the local day it
\* runs on and closes the open sessions that started before it.  The
\* cutoff depends on the clock only, so computing it and issuing the
\* update are one step.
AutoCloseSessions ==
    /\ clock >= nextRunTime
    /\ LET cutoff_utc == LocalCutoffInstant(LocalDateOf(clock))
       IN sessions' = [i \in DOMAIN sessions |->
                         SweepUpdateRow(sessions[i], cutoff_utc)]
    /\ nextRunTime' = NextFireTime(clock)
    /\ response' = "none"
    /\ call' = NoCall
    /\ view' = NoView
    /\ UNCHANGED apart
    /\ adjustments' = adjustments
    /\ UNCHANGED <<clock, nextId, suspended, jobOf, pc, req, adm, admOps>>

Next ==
    \/ Tick
    \/ \E a \in Managed : DeleteAccount(a)
    \/ \E a \in Managed : UnassignJob(a)
    \/ \E w \in Workers, sid \in SchoolIds, force \in BOOLEAN :
           PunchRead(w, sid, force)
    \/ \E w \in Workers : PunchUpdate(w)
    \/ \E w \in Workers : PunchInsert(w)
    \/ \E id \in 1..MaxSessions : InvalidateRead(id)
    \/ InvalidateWrite
    \/ \E ids \in SUBSET (1..MaxSessions) : BulkClose(ids)
    \/ AutoCloseSessions

Spec == Init /\ [][Next]_vars

\* The punch endpoint and the sweep together with every session
\* maintenance endpoint
MaintNext ==
    \/ Next
    \/ \E id \in 1..MaxSessions, data \in UpdateRequests :
           UpdateActivityRead(id, data)
    \/ UpdateActivityWrite
    \/ \E ids \in SUBSET (1..MaxSessions), data \in AdjustRequests :
           BulkAdjust(ids, data)
    \/ \E id \in 1..MaxSessions : RevalidateRead(id)
    \/ RevalidateWrite
    \/ \E ids \in SUBSET (1..MaxSessions) : BulkRevalidate(ids)
    \/ \E ids \in SUBSET (1..MaxSessions) : BulkInvalidateFill(ids)
    \/ BulkInvalidateMark
    \/ \E ids \in SUBSET (1..MaxSessions) : BulkDelete(ids)
    \/ \E a \in Managed, j \in Jobs : AssignJob(a, j)
    \/ \E id \in 1..MaxSessions : DeleteActivityRead(id)
    \/ DeleteActivityWrite

\* A session a manager invalidated while it was open: time_out filled in
\* with time_in + 30 minutes
InvalidatedSession(a) ==
    [account |-> a, time_in |-> FirstInstant,
     time_out |-> FirstInstant + AutoFillMinutes,
     invalidated_at |-> FirstInstant, invalidation_notes |-> AdminNotes,
     job |-> 1, auto_closed |-> FALSE]

\* The table may also start with a session invalidated earlier, and a
\* managed account without a job assignment
MaintInit ==
    /\ clock = FirstInstant
    /\ \/ sessions = <<>> /\ nextId = 1
       \/ \E a \in Accounts :
              sessions = (1 :> LegacySession(a)) /\ nextId = 2
       \/ \E a \in Accounts :
              sessions = (1 :> InvalidatedSession(a)) /\ nextId = 2
    /\ suspended = [a \in Accounts |-> FALSE]
    /\ \E js \in {1, NoJob} :
          jobOf = [a \in Accounts |-> IF a \in Managed THEN js ELSE 1]
    /\ pc = [w \in Workers |-> "idle"]
    /\ req = [w \in Workers |-> NoReq]
    /\ response = "none"
    /\ adm = AdmIdle
    /\ call = NoCall
    /\ admOps = 0
    /\ nextRunTime = NextFireTime(FirstInstant)
    /\ adjustments = <<>>
    /\ view = NoView
    /\ sweeps = <<>>
    /\ probe = NoProbe
    /\ requests = <<>>

MaintSpec == MaintInit /\ [][MaintNext]_vars

\* ------------------------------------------------------------ reporting
\* The reporting endpoints read the tables with one SELECT each, so each
\* sees one state of the store.  Their optional date, search, job and role
\* filters are left at their defaults; both accounts are students.
MaxLimit == 100        \* if limit > 100: limit = 100
FloorLimit == 10       \* if limit < 1: limit = 10
DefaultLimit == 50     \* limit: int = 50
MinutesPerHour == 60

\* adjustment_minutes a manager may send, and the account ids: 3 is the id
\* of no account
AdjustmentMinutes == {60, -30}
AdjustmentTargets == Accounts \cup {3}

\* limit as it arrives in the query string: left out, or an integer
Limits == {-5, 0, 1, 100, 101, 500}
LimitParams ==
    {[given |-> FALSE, value |-> 0]}
      \cup {[given |-> TRUE, value |-> n] : n \in Limits}

RECURSIVE SumOf(_, _)
\* SUM(...) over the rows S, and the accumulation loops of the handlers
SumOf(f, S) ==
    IF S = {} THEN 0
    ELSE LET x == CHOOSE x \in S : TRUE
         IN f[x] + SumOf(f, S \ {x})

\* A sum that leaves out the deductions
AdjustmentSumAdditionsOnly(adjs, a) ==
    LET K == {k \in DOMAIN adjs : adjs[k].account = a /\ adjs[k].minutes > 0}
    IN SumOf([k \in K |-> adjs[k].minutes], K)

\* SELECT SUM(adjustment_minutes) FROM time_adjustments WHERE account_id = a
AdjustmentSum(adjs, a) ==
    LET K == {k \in DOMAIN adjs : adjs[k].account = a}
    IN SumOf([k \in K |-> adjs[k].minutes], K)

\* LEFT JOIN job_activity ja ON a.id = ja.account_id AND ja.invalidated_at
\* IS NULL: the sessions of a the performance and leaderboard queries see
ValidRowsOf(store, a) ==
    {i \in DOMAIN store :
        store[i].account = a /\ store[i].invalidated_at = NULL}

\* A TIMESTAMPDIFF that computes with the zero date as with any other
TimestampDiffZeroDate(s) ==
    IF s.time_out = NULL
    THEN [null |-> TRUE, minutes |-> 0]
    ELSE [null |-> FALSE, minutes |-> s.time_out - s.time_in]

\* TIMESTAMPDIFF(MINUTE, time_in, time_out): SQL NULL when time_out is NULL
\* and, as MySQL date arithmetic does for an incomplete date, when it is
\* the zero date
TimestampDiff(s) ==
    IF s.time_out = NULL \/ s.time_out = ZERO_DATE
    THEN [null |-> TRUE, minutes |-> 0]
    ELSE [null |-> FALSE, minutes |-> s.time_out - s.time_in]

\* performance.py lines 119-154: total_minutes adds up duration_minutes of
\* the joined rows where it is not None
PerformanceMinutes(store, a) ==
    LET R == ValidRowsOf(store, a)
    IN SumOf([i \in R |-> IF TimestampDiff(store[i]).null THEN 0
                          ELSE TimestampDiff(store[i]).minutes], R)

\* performance.py lines 53-56: time_out IS NULL AND invalidated_at IS NULL
PerformanceOnline(store, a) ==
    \E i \in DOMAIN store :
       /\ store[i].account = a
       /\ store[i].time_out = NULL
       /\ store[i].invalidated_at = NULL

\* round(x, 2) of minutes / 60, in hundredths of an hour
HoursRounded(m) == (m * 100 + MinutesPerHour \div 2) \div MinutesPerHour

\* performance.py lines 156-179: one PerformanceStat
PerformanceStat(store, adjs, a) ==
    [is_online |-> PerformanceOnline(store, a),
     total_minutes |-> PerformanceMinutes(store, a),
     adjustment_minutes |-> AdjustmentSum(adjs, a),
     total_rendered_hours |->
         HoursRounded(PerformanceMinutes(store, a) + AdjustmentSum(adjs, a))]

\* performance.py lines 78-79 and 125-128: the suspended = "false" filter
\* and the status filter
PerformanceShown(store, status) ==
    {a \in Accounts :
        /\ ~suspended[a]
        /\ status = "active" => PerformanceOnline(store, a)
        /\ status = "inactive" => ~PerformanceOnline(store, a)}

\* performance.py get_performance_stats
GetPerformanceStats(status) ==
    /\ view' = [op |-> "performance", status |-> status,
                items |-> [a \in PerformanceShown(sessions, status) |->
                             PerformanceStat(sessions, adjustments, a)]]
    /\ response' = "none"
    /\ call' = NoCall
    /\ UNCHANGED <<clock, sessions, nextId, suspended, jobOf, pc, req, adm,
                   admOps, nextRunTime, adjustments, apart>>

\* leaderboards.py lines 60-66: CASE WHEN time_out IS NOT NULL AND
\* YEAR(time_out) > 0 THEN TIMESTAMPDIFF(...) ELSE 0
LeaderboardMinutes(store, a) ==
    LET R == ValidRowsOf(store, a)
    IN SumOf([i \in R |-> IF IsOpen(store[i]) THEN 0
                          ELSE store[i].time_out - store[i].time_in], R)

\* leaderboards.py lines 83-86: (time_out IS NULL OR YEAR(time_out) = 0)
\* AND invalidated_at IS NULL
LeaderboardOnline(store, a) ==
    \E i \in DOMAIN store :
       /\ store[i].account = a
       /\ IsOpen(store[i])
       /\ store[i].invalidated_at = NULL

\* leaderboards.py line 137: total_time
LeaderboardTotal(store, adjs, a) ==
    LeaderboardMinutes(store, a) + AdjustmentSum(adjs, a)

\* leaderboards.py lines 95-113: not suspended, HAVING total > 0
LeaderboardShown(store, adjs) ==
    {a \in Accounts :
        ~suspended[a] /\ LeaderboardTotal(store, adjs, a) > 0}

\* leaderboards.py lines 114-128: ORDER BY total DESC; rows with equal
\* totals come in any order
LeaderboardOrders(store, adjs) ==
    LET S == LeaderboardShown(store, adjs)
    IN {q \in [1..Cardinality(S) -> S] :
           /\ \A x, y \in DOMAIN q : x # y => q[x] # q[y]
           /\ \A x, y \in DOMAIN q :
                 x < y => LeaderboardTotal(store, adjs, q[x])
                            >= LeaderboardTotal(store, adjs, q[y])}

\* A limit check without the upper cap
EffectiveLimitUncapped(limit) == IF limit < 1 THEN FloorLimit ELSE limit

\* A limit check that clamps to max(1, min(limit, 100))
EffectiveLimitClamped(limit) ==
    IF limit > MaxLimit THEN MaxLimit ELSE IF limit < 1 THEN 1 ELSE limit

\* leaderboards.py lines 33-37
EffectiveLimit(limit) ==
    LET capped == IF limit > MaxLimit THEN MaxLimit ELSE limit
    IN IF capped < 1 THEN FloorLimit ELSE capped

\* leaderboards.py line 16: limit: int = 50
RequestedLimit(p) == IF p.given THEN p.value ELSE DefaultLimit

\* LIMIT n
Limit(q, n) == SubSeq(q, 1, IF n < Len(q) THEN n ELSE Len(q))

\* leaderboards.py get_top_performers
GetTopPerformers(p) ==
    /\ \E q \in LeaderboardOrders(sessions, adjustments) :
          view' = [op |-> "leaderboard", param |-> p,
                   limit |-> EffectiveLimit(RequestedLimit(p)),
                   entries |->
                     [k \in DOMAIN Limit(q, EffectiveLimit(RequestedLimit(p)))
                        |-> [id |-> q[k],
                             total_minutes |->
                               LeaderboardTotal(sessions, adjustments, q[k]),
                             is_online |->
                               LeaderboardOnline(sessions, q[k])]]]
    /\ response' = "none"
    /\ call' = NoCall
    /\ UNCHANGED <<clock, sessions, nextId, suspended, jobOf, pc, req, adm,
                   admOps, nextRunTime, adjustments, apart>>

\* attendance.py line 522: TIMESTAMPDIFF(MINUTE, time_in, COALESCE(NULLIF(
\* time_out, zero date), UTC_TIMESTAMP()))
SummaryMinutesOfRow(s, now) ==
    IF IsOpen(s) THEN now - s.time_in ELSE s.time_out - s.time_in

\* attendance.py lines 515-530: FROM job_activity JOIN accounts ... GROUP
\* BY account, every session of the account counted
SummaryOf(store, now) ==
    LET A == {a \in Accounts : \E i \in DOMAIN store : store[i].account = a}
    IN [a \in A |->
          LET R == {i \in DOMAIN store : store[i].account = a}
          IN [total_sessions |-> Cardinality(R),
              total_minutes |->
                SumOf([i \in R |-> SummaryMinutesOfRow(store[i], now)], R)]]

\* attendance.py get_attendance_summary
GetAttendanceSummary ==
    /\ view' = [op |-> "summary", items |-> SummaryOf(sessions, clock)]
    /\ response' = "none"
    /\ call' = NoCall
    /\ UNCHANGED <<clock, sessions, nextId, suspended, jobOf, pc, req, adm,
                   admOps, nextRunTime, adjustments, apart>>

\* ----------------------------------------------------- time adjustments
\* AUTO_INCREMENT of time_adjustments.id; ids are not compared across
\* requests, so the next free one stands for it
NewAdjustmentId(adjs) ==
    CHOOSE k \in 1..(Cardinality(DOMAIN adjs) + 1) : k \notin DOMAIN adjs

\* time_adjustments.py lines 32-52: the account must exist (404), then
\* INSERT INTO time_adjustments.  No step deletes a row of accounts, so the
\* lookup and the insert are one step.
CreateAdjustment(a, m) ==
    /\ adm.pc = "idle"
    /\ admOps < MaxAdminOps
    /\ IF a \notin Accounts
       THEN adjustments' = adjustments /\ response' = "AccountNotFound"
       ELSE /\ adjustments' =
                 [k \in DOMAIN adjustments \cup {NewAdjustmentId(adjustments)}
                    |-> IF k \in DOMAIN adjustments THEN adjustments[k]
                        ELSE [account |-> a, minutes |-> m]]
            /\ response' = "none"
    /\ admOps' = admOps + 1
    /\ call' = [op |-> "create_adjustment", id |-> a, ids |-> {},
                data |-> NoData, minutes |-> m]
    /\ view' = NoView
    /\ UNCHANGED apart
    /\ UNCHANGED <<clock, sessions, nextId, suspended, jobOf, pc, req, adm,
                   nextRunTime>>

\* time_adjustments.py lines 148-159: the row must exist (404), then DELETE
\* FROM time_adjustments WHERE id = %s; a row that went away in between
\* makes the DELETE change nothing, so the two are one step
DeleteAdjustment(k) ==
    /\ adm.pc = "idle"
    /\ admOps < MaxAdminOps
    /\ IF k \notin DOMAIN adjustments
       THEN adjustments' = adjustments /\ response' = "AdjustmentNotFound"
       ELSE /\ adjustments' =
                 [x \in DOMAIN adjustments \ {k} |-> adjustments[x]]
            /\ response' = "none"
    /\ admOps' = admOps + 1
    /\ call' = Call("delete_adjustment", k, {}, NoData)
    /\ view' = NoView
    /\ UNCHANGED apart
    /\ UNCHANGED <<clock, sessions, nextId, suspended, jobOf, pc, req, adm,
                   nextRunTime>>

\* The reporting endpoints and the time adjustments
ReportNext ==
    \/ \E a \in AdjustmentTargets, m \in AdjustmentMinutes :
           CreateAdjustment(a, m)
    \/ \E k \in 1..2 : DeleteAdjustment(k)
    \/ \E status \in {"all", "active", "inactive"} :
           GetPerformanceStats(status)
    \/ \E p \in LimitParams : GetTopPerformers(p)
    \/ GetAttendanceSummary

\* An adjustment entered earlier
EarlierAdjustment(a, m) == (1 :> [account |-> a, minutes |-> m])

\* A session closed by a punch at the second instant
ClosedSession(a) ==
    [NewSession(a, FirstInstant, 1) EXCEPT !.time_out = InstantAt(2)]

\* The rows the table holds for account a at the second instant: a session
\* still open, a legacy one, one closed by a punch, one invalidated by a
\* manager
RowsOf(a) ==
    {NewSession(a, FirstInstant, 1), LegacySession(a), ClosedSession(a),
     InvalidatedSession(a)}

AllRows == UNION {RowsOf(a) : a \in Accounts}

\* The tables of up to MaxSessions rows in which no account has two open
\* sessions
ReportStores ==
    {st \in UNION {[1..n -> AllRows] : n \in 0..MaxSessions} :
        \A a \in Accounts : Cardinality(OpenIdsOf(st, a)) <= 1}

\* The reporting endpoints are functions of the tables they read: they are
\* checked on every such table, at the second instant
ReportInit ==
    /\ clock = InstantAt(2)
    /\ sessions \in ReportStores
    /\ nextId = Len(sessions) + 1
    /\ suspended \in {[a \in Accounts |-> FALSE],
                      [a \in Accounts |-> a \in Managed]}
    /\ jobOf = [a \in Accounts |-> 1]
    /\ pc = [w \in Workers |-> "idle"]
    /\ req = [w \in Workers |-> NoReq]
    /\ response = "none"
    /\ adm = AdmIdle
    /\ call = NoCall
    /\ admOps = 0
    /\ nextRunTime = NextFireTime(FirstInstant)
    /\ \/ adjustments = <<>>
       \/ adjustments = EarlierAdjustment(2, 60)
       \/ adjustments = EarlierAdjustment(1, -30)
    /\ view = NoView
    /\ sweeps = <<>>
    /\ probe = NoProbe
    /\ requests = <<>>

ReportSpec == ReportInit /\ [][ReportNext]_vars

\* ------------------------------------------------------------ scheduler
\* scheduler.py lines 64-69: add_job is called without max_instances, so
\* the job runs with the scheduler's default of one concurrent instance
MaxInstances == 1

\* A scheduler that submits a due job whatever is already running
MaySubmitAlways(running) == TRUE

\* the executor accepts a run of the job only while fewer than
\* max_instances runs of it are in progress
MaySubmit(running) == running < MaxInstances

\* scheduler.py lines 61-71 and 21-44: the trigger's fire time has come.
\* The scheduler moves the job to its next fire time and submits a run
\* unless the instance limit is reached, in which case the run is skipped.
\* A submitted run computes its cutoff from the local day it starts on and
\* then waits for the database.
SchedulerTick ==
    /\ clock >= nextRunTime
    /\ nextRunTime' = NextFireTime(clock)
    /\ sweeps' = IF MaySubmit(Len(sweeps))
                 THEN Append(sweeps, LocalCutoffInstant(LocalDateOf(clock)))
                 ELSE sweeps
    /\ response' = "none"
    /\ call' = NoCall
    /\ view' = NoView
    /\ adjustments' = adjustments
    /\ UNCHANGED <<clock, sessions, nextId, suspended, jobOf, pc, req, adm,
                   admOps, probe, requests>>

RemoveAt(q, k) == SubSeq(q, 1, k - 1) \o SubSeq(q, k + 1, Len(q))

\* scheduler.py lines 45-59: the UPDATE of a run in progress executes and
\* the run ends
SweepRun(k) ==
    /\ k \in DOMAIN sweeps
    /\ sessions' = [i \in DOMAIN sessions |->
                      SweepUpdateRow(sessions[i], sweeps[k])]
    /\ sweeps' = RemoveAt(sweeps, k)
    /\ response' = "none"
    /\ call' = NoCall
    /\ view' = NoView
    /\ adjustments' = adjustments
    /\ UNCHANGED <<clock, nextId, suspended, jobOf, pc, req, adm, admOps,
                   nextRunTime, probe, requests>>

\* The punch endpoint next to a scheduler whose runs take time
SchedNext ==
    \/ Tick
    \/ \E w \in Workers, sid \in SchoolIds, force \in BOOLEAN :
           PunchRead(w, sid, force)
    \/ \E w \in Workers : PunchUpdate(w)
    \/ \E w \in Workers : PunchInsert(w)
    \/ SchedulerTick
    \/ \E k \in 1..(MaxInstances + 1) : SweepRun(k)

SchedSpec == Init /\ [][SchedNext]_vars

\* ----------------------------------------------------- connection checks
\* database.py line 125, email.py line 199: asyncio.sleep(2)
RetryDelaySeconds == 2

\* the services checked at start-up and by the status endpoint
Services == {"database", "smtp"}

\* what one attempt can end in: the connection works, asyncio.wait_for
\* gives up after timeout_seconds, or the client raises
AttemptOutcomes == {"success", "timeout", "error"}

\* A loop that sleeps after every failed attempt, the last one included
ShouldSleepAlways(attempt, max_attempts) == TRUE

\* database.py line 123, email.py line 197: if attempt < max_attempts
ShouldSleep(attempt, max_attempts) == attempt < max_attempts

\* the check is called: for attempt in range(1, max_attempts + 1)
StartedProbe(f, n) ==
    [pc |-> "try", service |-> f, max_attempts |-> n, attempt |-> 1,
     attempts |-> 0, slept |-> 0, last |-> "none", result |-> FALSE]

\* database.py lines 96-121, email.py lines 154-195: one pass through the
\* try block.  Success returns True at once; a timeout or an exception is
\* logged and the loop goes on, through the sleep unless this was the last
\* attempt.
CheckAttempt(o) ==
    /\ probe.pc = "try"
    /\ probe.attempt <= probe.max_attempts
    /\ probe' =
         IF o = "success"
         THEN [probe EXCEPT !.pc = "done", !.result = TRUE, !.last = o,
                            !.attempts = @ + 1]
         ELSE IF ShouldSleep(probe.attempt, probe.max_attempts)
         THEN [probe EXCEPT !.pc = "sleep", !.last = o, !.attempts = @ + 1]
         ELSE [probe EXCEPT !.attempt = @ + 1, !.last = o,
                            !.attempts = @ + 1]
    /\ UNCHANGED <<clock, sessions, nextId, suspended, jobOf, pc, req,
                   response, adm, call, admOps, nextRunTime, adjustments,
                   view, sweeps, requests>>

\* database.py lines 123-125, email.py lines 197-199: await
\* asyncio.sleep(2), then the next attempt
CheckSleep ==
    /\ probe.pc = "sleep"
    /\ probe' = [probe EXCEPT !.pc = "try", !.attempt = @ + 1,
                              !.slept = @ + RetryDelaySeconds]
    /\ UNCHANGED <<clock, sessions, nextId, suspended, jobOf, pc, req,
                   response, adm, call, admOps, nextRunTime, adjustments,
                   view, sweeps, requests>>

\* database.py lines 127-128, email.py lines 201-202: the range is used
\* up, return False
CheckGiveUp ==
    /\ probe.pc = "try"
    /\ probe.attempt > probe.max_attempts
    /\ probe' = [probe EXCEPT !.pc = "done", !.result = FALSE]
    /\ UNCHANGED <<clock, sessions, nextId, suspended, jobOf, pc, req,
                   response, adm, call, admOps, nextRunTime, adjustments,
                   view, sweeps, requests>>

RetryNext ==
    \/ \E o \in AttemptOutcomes : CheckAttempt(o)
    \/ CheckSleep
    \/ CheckGiveUp

\* check_database_connection or check_smtp_connection has just been
\* called, with any max_attempts up to the bound
RetryInit ==
    /\ clock = FirstInstant
    /\ sessions = <<>>
    /\ nextId = 1
    /\ suspended = [a \in Accounts |-> FALSE]
    /\ jobOf = [a \in Accounts |-> 1]
    /\ pc = [w \in Workers |-> "idle"]
    /\ req = [w \in Workers |-> NoReq]
    /\ response = "none"
    /\ adm = AdmIdle
    /\ call = NoCall
    /\ admOps = 0
    /\ nextRunTime = NextFireTime(FirstInstant)
    /\ adjustments = <<>>
    /\ view = NoView
    /\ sweeps = <<>>
    /\ \E f \in Services, n \in 0..MaxAttempts : probe = StartedProbe(f, n)
    /\ requests = <<>>

\* The event loop runs a coroutine that is ready: an attempt ends within
\* its timeout and a sleep ends after its delay
RetrySpec == RetryInit /\ [][RetryNext]_vars /\ WF_vars(RetryNext)

\* -------------------------------------------------------- overdue count
\* DATE(x) of a UTC column and UTC_DATE(): the calendar day in UTC
UtcDateOf(t) == t \div MinutesPerDay

\* attendance.py lines 589-597: SELECT COUNT(*) FROM job_activity WHERE open
\* AND DATE(time_in) < UTC_DATE() AND invalidated_at IS NULL
OverdueCount(store, now) ==
    Cardinality({i \in DOMAIN store :
                    /\ IsOpen(store[i])
                    /\ UtcDateOf(store[i].time_in) < UtcDateOf(now)
                    /\ store[i].invalidated_at = NULL})

\* attendance.py get_overdue_count
GetOverdueCount ==
    /\ view' = [op |-> "overdue", count |-> OverdueCount(sessions, clock)]
    /\ response' = "none"
    /\ call' = NoCall
    /\ UNCHANGED <<clock, sessions, nextId, suspended, jobOf, pc, req, adm,
                   admOps, nextRunTime, adjustments, apart>>

\* The instants at which the count is asked for: 23:10 of day 1, then 07:00,
\* 09:00 and 22:50 of day 2, local time
OverdueInstants ==
    {InstantAt(2), LocalInstant(2, 420), LocalInstant(2, 540), InstantAt(3)}

\* The count and the punch are tried on every table of ReportStores, whose
\* sessions started on day 1, at each of these instants
OverdueInit ==
    /\ clock \in OverdueInstants
    /\ sessions \in ReportStores
    /\ nextId = Len(sessions) + 1
    /\ suspended = [a \in Accounts |-> FALSE]
    /\ jobOf = [a \in Accounts |-> 1]
    /\ pc = [w \in Workers |-> "idle"]
    /\ req = [w \in Workers |-> NoReq]
    /\ response = "none"
    /\ adm = AdmIdle
    /\ call = NoCall
    /\ admOps = 0
    /\ nextRunTime = NextFireTime(FirstInstant)
    /\ adjustments = <<>>
    /\ view = NoView
    /\ sweeps = <<>>
    /\ probe = NoProbe
    /\ requests = <<>>

OverdueNext ==
    \/ GetOverdueCount
    \/ \E w \in Workers, sid \in SchoolIds, force \in BOOLEAN :
           PunchRead(w, sid, force)
    \/ \E w \in Workers : PunchUpdate(w)
    \/ \E w \in Workers : PunchInsert(w)

OverdueSpec == OverdueInit /\ [][OverdueNext]_vars

\* ------------------------------------------------------ absence requests
\* the date a student asks to be absent on
AbsenceDates == {1}

\* values of list_requests' status_filter; "None" is the absent parameter
StatusFilters == {"None", "Pending", "Approved", "Rejected", "Cancelled"}

\* schedules.py lines 17-24
derive_status(item) ==
    IF item.cancelled_at # NULL THEN "Cancelled"
    ELSE IF item.rejected_at # NULL THEN "Rejected"
    ELSE IF item.approved_at # NULL THEN "Approved"
    ELSE "Pending"

\* schedules.py lines 238-246: the WHERE clause built for a status filter
MatchesFilter(item, f) ==
    CASE f = "Pending" -> /\ item.approved_at = NULL
                          /\ item.rejected_at = NULL
                          /\ item.cancelled_at = NULL
      [] f = "Approved" -> item.approved_at # NULL
      [] f = "Rejected" -> item.rejected_at # NULL
      [] f = "Cancelled" -> item.cancelled_at # NULL
      [] OTHER -> TRUE

\* The handlers of the absence requests are taken one at a time: each is
\* one step, its statements run without another handler in between.
AbsenceStep(r, answer) ==
    /\ requests' = r
    /\ response' = answer
    /\ call' = NoCall
    /\ view' = NoView
    /\ UNCHANGED <<clock, sessions, nextId, suspended, jobOf, pc, req, adm,
                   admOps, nextRunTime, adjustments, sweeps, probe>>

\* schedules.py create_request, lines 88-113: refused when the student
\* already has a request for the date, else INSERT with the three
\* timestamps NULL
CreateRequest(a, d) ==
    /\ Len(requests) < MaxRequests
    /\ IF \E i \in DOMAIN requests :
             requests[i].account = a /\ requests[i].date = d
       THEN AbsenceStep(requests, "exists")
       ELSE AbsenceStep(Append(requests,
                               [account |-> a, date |-> d,
                                approved_at |-> NULL, rejected_at |-> NULL,
                                cancelled_at |-> NULL]),
                        "ok")

\* schedules.py cancel_request, lines 124-139: the owner's request gets
\* cancelled_at = now; the other timestamps stay
CancelRequest(a, i) ==
    IF i \in DOMAIN requests /\ requests[i].account = a
    THEN AbsenceStep([requests EXCEPT ![i].cancelled_at = clock], "ok")
    ELSE AbsenceStep(requests, "not_found")

\* schedules.py approve_request, lines 265-273
ApproveRequest(i) ==
    IF i \in DOMAIN requests
    THEN AbsenceStep([requests EXCEPT ![i].approved_at = clock,
                                      ![i].rejected_at = NULL,
                                      ![i].cancelled_at = NULL], "ok")
    ELSE AbsenceStep(requests, "error")

\* schedules.py reject_request, lines 285-293
RejectRequest(i) ==
    IF i \in DOMAIN requests
    THEN AbsenceStep([requests EXCEPT ![i].rejected_at = clock,
                                      ![i].approved_at = NULL,
                                      ![i].cancelled_at = NULL], "ok")
    ELSE AbsenceStep(requests, "error")

\* schedules.py list_requests, lines 238-257: the rows the WHERE clause
\* selects, each with its derived status (the order, by date, is left out)
ListRequests(f) ==
    /\ view' = [op |-> "requests", filter |-> f,
                items |-> [i \in {j \in DOMAIN requests :
                                     MatchesFilter(requests[j], f)}
                             |-> derive_status(requests[i])]]
    /\ response' = "none"
    /\ call' = NoCall
    /\ UNCHANGED <<clock, sessions, nextId, suspended, jobOf, pc, req, adm,
                   admOps, nextRunTime, adjustments, apart>>

AbsenceNext ==
    \/ Tick
    \/ \E a \in Accounts, d \in AbsenceDates : CreateRequest(a, d)
    \/ \E a \in Accounts, i \in 1..MaxRequests : CancelRequest(a, i)
    \/ \E i \in 1..MaxRequests : ApproveRequest(i)
    \/ \E i \in 1..MaxRequests : RejectRequest(i)
    \/ \E f \in StatusFilters : ListRequests(f)

AbsenceSpec == Init /\ [][AbsenceNext]_vars

\* ================================================================ claims
\* How a step shows on a pair of states
PunchReadStep(w) ==
    /\ pc[w] = "idle"
    /\ call'.op = "none"
    /\ (pc'[w] # "idle" \/ response' # "none")

PunchUpdateStep(w) == pc[w] = "update" /\ pc'[w] = "idle"

PunchInsertStep(w) == pc[w] = "insert" /\ pc'[w] = "idle"

SweepStep == nextRunTime' # nextRunTime

AdminStep == adm' # adm \/ admOps' # admOps

\* the accounts the presented school ids resolve to
PunchingAccounts == {a \in Accounts : \E sid \in SchoolIds : sid = a}

CreatedIds == DOMAIN sessions' \ DOMAIN sessions

ChangedIds == {i \in DOMAIN sessions : sessions'[i] # sessions[i]}

\* the open session(s) of a with the latest time_in
LatestOpenIds(a) ==
    {i \in OpenIdsOf(sessions, a) :
        \A j \in OpenIdsOf(sessions, a) :
            sessions[j].time_in <= sessions[i].time_in}

\* the latest open session of a started on the local day of the clock
OnTimeOutPath(a) ==
    \E i \in LatestOpenIds(a) :
        (sessions[i].time_in + 480) \div 1440 = (clock + 480) \div 1440

\* ... and started less than ten minutes ago
TooEarly(a) ==
    \E i \in LatestOpenIds(a) :
        /\ (sessions[i].time_in + 480) \div 1440 = (clock + 480) \div 1440
        /\ clock - sessions[i].time_in < 10

\* open sessions of a that started on an earlier local day than the clock's
StaleOpenIds(a) ==
    {i \in OpenIdsOf(sessions, a) :
        (sessions[i].time_in + 480) \div 1440 < (clock + 480) \div 1440}

\* 23:00 local time of the local day of instant t, as an absolute instant
CutoffOfDayOf(t) == ((t + 480) \div 1440) * 1440 + 23 * 60 - 480

\* C1: after any sequence and interleaving of punches, sweeps and
\* maintenance operations, every account has at most one open session.
C1_AtMostOneOpenSession ==
    \A a \in Accounts : Cardinality(OpenIdsOf(sessions, a)) <= 1

\* C2: a successful punch creates exactly one row of the punching account,
\* or updates a row of the punching account, and leaves every other session
\* unchanged: no second row differs after the punch.
C2_PunchTouchesOneRow ==
    [][\A w \in Workers :
         /\ PunchInsertStep(w) =>
              /\ Cardinality(CreatedIds) = 1
              /\ ChangedIds = {}
              /\ \A i \in CreatedIds : sessions'[i].account = req[w].acct
         /\ PunchUpdateStep(w) =>
              /\ CreatedIds = {}
              /\ Cardinality(ChangedIds) <= 1
              /\ \A i \in ChangedIds : sessions[i].account = req[w].acct
      ]_vars

\* C3: when the open session of an account started on an earlier local day,
\* a punch takes the time-in path and creates a new session, and the
\* earlier-day session stays as it is, open, until a sweep or a maintenance
\* operation changes it.
C3_StaleSessionLeftOpen ==
    [][/\ \A w \in Workers, a \in PunchingAccounts :
            ( /\ PunchReadStep(w)
              /\ response' # "AccountNotFound"
              /\ ~suspended[a] /\ jobOf[a] # NoJob
              /\ LatestOpenIds(a) # {}
              /\ LatestOpenIds(a) \subseteq StaleOpenIds(a) )
            => pc'[w] = "insert"
       /\ \A w \in Workers :
            PunchInsertStep(w) =>
              /\ response' = "time_in"
              /\ \E i \in CreatedIds :
                    /\ sessions'[i].account = req[w].acct
                    /\ sessions'[i].time_in = clock
                    /\ sessions'[i].time_out = NULL
       /\ \A a \in Accounts : \A i \in StaleOpenIds(a) :
            sessions'[i] # sessions[i] => SweepStep \/ AdminStep
      ]_vars

\* C4: a punch-out at least ten minutes after the punch-in of the same
\* local day yields exactly one closed session, with timeOut the punch-out
\* instant and no invalidation; no other session is closed by it.
C4_OneSessionClosedAtPunchOut ==
    [][\A w \in Workers :
         ( /\ PunchUpdateStep(w)
           /\ ~req[w].inval
           /\ OpenIdsOf(sessions, req[w].acct) # {} )
         => /\ CreatedIds = {}
            /\ Cardinality(ChangedIds) = 1
            /\ \A i \in ChangedIds :
                  /\ sessions'[i].account = req[w].acct
                  /\ sessions'[i].time_out = clock
                  /\ sessions'[i].time_out - sessions'[i].time_in >= 10
                  /\ sessions'[i].invalidated_at = NULL
      ]_vars

\* C5: a punch on the time-out path less than ten minutes after timeIn and
\* without force answers EarlyTimeoutWarning and writes nothing; only the
\* forced punch goes on to the update, and then as an invalidating one.
C5_EarlyTimeoutWarning ==
    [][\A w \in Workers :
         PunchReadStep(w) =>
           /\ response' = "EarlyTimeoutWarning" =>
                /\ sessions' = sessions /\ nextId' = nextId
                /\ pc'[w] = "idle"
                /\ \E a \in PunchingAccounts : TooEarly(a)
           /\ \A a \in PunchingAccounts :
                ( /\ response' # "AccountNotFound"
                  /\ ~suspended[a]
                  /\ TooEarly(a) )
                => \/ response' = "EarlyTimeoutWarning"
                   \/ pc'[w] = "update" /\ req'[w].inval
      ]_vars

C5_Witness ==
    /\ response = "EarlyTimeoutWarning"
    /\ \E i \in OpenIdsOf(sessions, 1) : sessions[i].time_in = clock

\* C6, with the notes the code writes: a forced punch on the time-out path
\* less than ten minutes after timeIn closes the session with timeOut = now
\* and in the same update sets invalidatedAt = now and the invalidation
\* notes.
ForcedEarlyTimeoutWrites(notes) ==
    \A w \in Workers :
      /\ ( /\ PunchReadStep(w) /\ pc'[w] = "update"
           /\ \E a \in PunchingAccounts : TooEarly(a) )
         => req'[w].inval /\ req'[w].now = clock
      /\ (PunchUpdateStep(w) /\ req[w].inval) =>
           \A i \in OpenIdsOf(sessions, req[w].acct) :
              sessions'[i] = [sessions[i] EXCEPT
                                 !.time_out = clock,
                                 !.invalidated_at = clock,
                                 !.invalidation_notes = notes]

C7_JoblessOnlyOnTimeIn ==
    [][\A w \in Workers :
         /\ PunchReadStep(w) =>
              \A a \in PunchingAccounts :
                (response' # "AccountNotFound" /\ ~suspended[a]) =>
                  IF OnTimeOutPath(a)
                  THEN /\ response' # "AccountJobless"
                       /\ \/ pc'[w] = "update"
                          \/ response' = "EarlyTimeoutWarning"
                  ELSE IF jobOf[a] = NoJob
                       THEN /\ response' = "AccountJobless"
                            /\ pc'[w] = "idle"
                            /\ sessions' = sessions /\ nextId' = nextId
                       ELSE pc'[w] = "insert"
         /\ PunchUpdateStep(w) => response' = "time_out"
      ]_vars

C7_Witness ==
    /\ response = "time_out"
    /\ jobOf[1] = NoJob
    /\ \E i \in DOMAIN sessions :
          /\ sessions[i].account = 1
          /\ sessions[i].time_out = clock
          /\ sessions[i].invalidated_at = NULL

C9_SweepClosesAtCutoff ==
    [][SweepStep =>
         \A i \in DOMAIN sessions :
           ( /\ sessions[i].time_out \in {NULL, ZERO_DATE}
             /\ sessions[i].time_in < CutoffOfDayOf(clock) )
           => sessions'[i] = [sessions[i] EXCEPT
                                 !.time_out = CutoffOfDayOf(clock),
                                 !.auto_closed = TRUE]
      ]_vars

C9_Witness ==
    /\ nextRunTime > CutoffOfDayOf(clock)
    /\ \E i \in DOMAIN sessions :
          /\ sessions[i].auto_closed
          /\ sessions[i].time_out = CutoffOfDayOf(clock)
          /\ sessions[i].time_out < clock

\* C10: a sweep leaves every session that started at or after its cutoff
\* untouched, and after a sweep no session that started before its cutoff
\* is open: the first sweep with a later cutoff closes the session.
C10_SweepLeavesLaterSessions ==
    [][SweepStep =>
         /\ \A i \in DOMAIN sessions :
               sessions[i].time_in >= CutoffOfDayOf(clock)
               => sessions'[i] = sessions[i]
         /\ DOMAIN sessions' = DOMAIN sessions
         /\ \A i \in DOMAIN sessions' :
               IsOpen(sessions'[i])
               => sessions'[i].time_in >= CutoffOfDayOf(clock)
      ]_vars

C10_Witness ==
    \E i \in DOMAIN sessions :
       /\ sessions[i].auto_closed
       /\ sessions[i].time_in >= CutoffOfDayOf(sessions[i].time_in)
       /\ sessions[i].time_out = CutoffOfDayOf(sessions[i].time_in) + 1440

\* C11: the sweep is idempotent: run again with the same cutoff right after
\* a sweep, it matches no session and changes no row.
C11_SweepIdempotent ==
    [][SweepStep =>
         /\ {i \in DOMAIN sessions' :
                /\ sessions'[i].time_out \in {NULL, ZERO_DATE}
                /\ sessions'[i].time_in < CutoffOfDayOf(clock)} = {}
         /\ [i \in DOMAIN sessions' |->
                SweepUpdateRow(sessions'[i], CutoffOfDayOf(clock))] = sessions'
      ]_vars

C11_Witness ==
    /\ nextRunTime = CutoffOfDayOf(clock) + 1440
    /\ clock > CutoffOfDayOf(clock)
    /\ \E i \in DOMAIN sessions :
          sessions[i].auto_closed /\ sessions[i].time_out = CutoffOfDayOf(clock)
    /\ \E j \in DOMAIN sessions :
          IsOpen(sessions[j]) /\ sessions[j].time_in = clock

InvalidateReadStep == call'.op = "invalidate"

InvalidateWriteStep == adm.pc = "invalidate" /\ adm'.pc = "idle"

\* C13: invalidate leaves the session invalidated and closed: a session
\* that was open (NULL or zero date) when invalidate read it gets timeOut =
\* timeIn + 30 minutes in the update that invalidates it, a session that
\* was closed keeps its timeOut.
C13_InvalidateClosesOpenSession ==
    [][/\ InvalidateReadStep =>
            /\ call'.id \in DOMAIN sessions
            /\ adm'.id = call'.id
            /\ adm'.empty = (sessions[call'.id].time_out \in {NULL, ZERO_DATE})
            /\ adm'.time_in = sessions[call'.id].time_in
            /\ sessions' = sessions
       /\ InvalidateWriteStep =>
            /\ DOMAIN sessions' = DOMAIN sessions
            /\ \A i \in DOMAIN sessions :
                  sessions'[i] =
                    IF i # adm.id THEN sessions[i]
                    ELSE IF adm.empty
                    THEN [sessions[i] EXCEPT
                            !.invalidated_at = clock,
                            !.invalidation_notes = AdminNotes,
                            !.time_out = adm.time_in + 30]
                    ELSE [sessions[i] EXCEPT
                            !.invalidated_at = clock,
                            !.invalidation_notes = AdminNotes]
            /\ \A i \in DOMAIN sessions' :
                  i = adm.id =>
                    /\ sessions'[i].invalidated_at # NULL
                    /\ sessions'[i].time_out \notin {NULL, ZERO_DATE}
      ]_vars

C13_Witness ==
    /\ adm.pc = "idle"
    /\ admOps > 0
    /\ \E i \in DOMAIN sessions :
          /\ sessions[i].invalidated_at = clock
          /\ sessions[i].invalidation_notes = AdminNotes
          /\ sessions[i].time_out = sessions[i].time_in + 30
          /\ sessions[i].time_in < clock

\* C16: bulkClose sets timeOut = now on the sessions of the id set that are
\* open at the update and changes nothing else: closed sessions of the set
\* and sessions outside the set stay as they are.
C16_BulkCloseOnlyOpenSessions ==
    [][call'.op = "bulk_close" =>
         /\ DOMAIN sessions' = DOMAIN sessions
         /\ \A i \in DOMAIN sessions :
               sessions'[i] =
                 IF i \in call'.ids /\ sessions[i].time_out \in {NULL, ZERO_DATE}
                 THEN [sessions[i] EXCEPT !.time_out = clock]
                 ELSE sessions[i]
      ]_vars

C16_Witness ==
    /\ call.op = "bulk_close"
    /\ \E i \in call.ids, j \in call.ids :
          /\ i \in DOMAIN sessions /\ j \in DOMAIN sessions
          /\ sessions[i].time_out = clock
          /\ sessions[i].time_in < clock
          /\ sessions[j].time_out \notin {NULL, ZERO_DATE}
          /\ sessions[j].time_out < clock

\* C12: in every reachable state a session with a present timeOut has
\* timeOut >= timeIn.
C12_TimeOutNotBeforeTimeIn ==
    \A i \in DOMAIN sessions :
        sessions[i].time_out \notin {NULL, ZERO_DATE}
        => sessions[i].time_out >= sessions[i].time_in

BulkInvalidateMarkStep == adm.pc = "bulk_invalidate" /\ adm'.pc = "idle"

\* C14: bulkInvalidate sets timeOut = timeIn + 30 minutes on the sessions
\* of the set that are open and on no other, then marks every session of
\* the set invalidated; afterwards no session of the set, as it existed
\* when the operation began, has an absent timeOut.
C14_BulkInvalidateMixedSet ==
    [][/\ (call'.op = "bulk_invalidate" /\ call'.ids # {}) =>
            /\ adm'.ids = call'.ids
            /\ adm'.seen = DOMAIN sessions
            /\ DOMAIN sessions' = DOMAIN sessions
            /\ \A i \in DOMAIN sessions :
                  sessions'[i] =
                    IF i \in call'.ids
                       /\ sessions[i].time_out \in {NULL, ZERO_DATE}
                    THEN [sessions[i] EXCEPT
                            !.time_out = sessions[i].time_in + 30]
                    ELSE sessions[i]
       /\ BulkInvalidateMarkStep =>
            /\ DOMAIN sessions' = DOMAIN sessions
            /\ \A i \in DOMAIN sessions :
                  IF i \in adm.ids
                  THEN /\ sessions'[i] = [sessions[i] EXCEPT
                                            !.invalidated_at = clock,
                                            !.invalidation_notes = AdminNotes]
                       /\ i \in adm.seen =>
                            sessions'[i].time_out \notin {NULL, ZERO_DATE}
                  ELSE sessions'[i] = sessions[i]
      ]_vars

C14_Witness ==
    /\ adm.pc = "idle"
    /\ \E i \in DOMAIN sessions, j \in DOMAIN sessions :
          /\ sessions[i].invalidated_at = clock
          /\ sessions[j].invalidated_at = clock
          /\ sessions[i].invalidation_notes = AdminNotes
          /\ sessions[j].invalidation_notes = AdminNotes
          /\ sessions[i].time_out = sessions[i].time_in + 30
          /\ sessions[j].time_out \notin {NULL, ZERO_DATE}
          /\ sessions[j].time_out # sessions[j].time_in + 30

RevalidateWriteStep == adm.pc = "revalidate" /\ adm'.pc = "idle"

\* C15: revalidate and bulkRevalidate clear invalidatedAt and
\* invalidationNotes of the targeted sessions, leave their timeIn and
\* timeOut as they are (also a timeOut filled in by an earlier
\* invalidate), and leave every other session unchanged.
C15_RevalidateClearsInvalidationOnly ==
    [][/\ RevalidateWriteStep =>
            /\ DOMAIN sessions' = DOMAIN sessions
            /\ \A i \in DOMAIN sessions :
                  sessions'[i] =
                    IF i = adm.id
                    THEN [sessions[i] EXCEPT
                            !.invalidated_at = NULL,
                            !.invalidation_notes = NullNotes]
                    ELSE sessions[i]
       /\ (call'.op = "bulk_revalidate" /\ call'.ids # {}) =>
            /\ DOMAIN sessions' = DOMAIN sessions
            /\ \A i \in DOMAIN sessions :
                  sessions'[i] =
                    IF i \in call'.ids
                    THEN [sessions[i] EXCEPT
                            !.invalidated_at = NULL,
                            !.invalidation_notes = NullNotes]
                    ELSE sessions[i]
      ]_vars

C15_Witness ==
    /\ admOps > 0
    /\ adm.pc = "idle"
    /\ \E i \in DOMAIN sessions :
          /\ sessions[i] = [InvalidatedSession(sessions[i].account) EXCEPT
                              !.invalidated_at = NULL,
                              !.invalidation_notes = NullNotes]

BulkOps ==
    {"bulk_close", "bulk_invalidate", "bulk_revalidate", "bulk_delete",
     "bulk_adjust"}

\* C17: every bulk operation called with an empty id set answers success
\* and leaves the session store unchanged, bulkAdjust also when no field
\* is provided.
C17_EmptyIdSetIsNoOp ==
    [][(call'.op \in BulkOps /\ call'.ids = {}) =>
         /\ response' = "count0"
         /\ sessions' = sessions
         /\ nextId' = nextId
         /\ adm' = adm
      ]_vars

C17_Witness ==
    /\ call.op = "bulk_adjust"
    /\ call.ids = {}
    /\ call.data = NoData
    /\ response = "count0"
    /\ sessions # <<>>

\* C18: updateSession on an id that does not exist answers SessionNotFound,
\* on an existing id without any field NoFieldsProvided; neither changes
\* the session store.
C18_UpdateRejections ==
    [][call'.op = "update" =>
         /\ call'.id \notin DOMAIN sessions =>
              response' = "SessionNotFound"
         /\ (call'.id \in DOMAIN sessions /\ call'.data = NoData) =>
              response' = "NoFieldsProvided"
         /\ (call'.id \in DOMAIN sessions /\ call'.data # NoData) =>
              /\ response' = "none"
              /\ adm'.pc = "update"
         /\ response' \in {"SessionNotFound", "NoFieldsProvided"} =>
              /\ sessions' = sessions
              /\ nextId' = nextId
              /\ adm' = adm
      ]_vars

C18_Witness ==
    /\ call.op = "update"
    /\ call.id \in DOMAIN sessions
    /\ call.data = NoData
    /\ response = "NoFieldsProvided"

\* C19: sessions are created only by a punch on the time-in path, and a
\* session with a present timeOut is never made open again by any
\* operation.
C19_CreatedByPunchClosedOnce ==
    [][/\ \A i \in DOMAIN sessions' \ DOMAIN sessions :
            \E w \in Workers :
               /\ pc[w] = "insert"
               /\ response' = "time_in"
               /\ sessions'[i].account = req[w].acct
               /\ sessions'[i].time_in = clock
       /\ \A i \in DOMAIN sessions \cap DOMAIN sessions' :
            sessions[i].time_out \notin {NULL, ZERO_DATE}
            => sessions'[i].time_out \notin {NULL, ZERO_DATE}
      ]_vars

C19_Witness ==
    \E i \in DOMAIN sessions :
       /\ i > 1
       /\ sessions[i].time_out \notin {NULL, ZERO_DATE}
       /\ sessions[i].invalidated_at = NULL
       /\ sessions[i].invalidation_notes = AdminNotes

UpdateActivityWriteStep == adm.pc = "update" /\ adm'.pc = "idle"

\* C20 as stated: no operation changes the timeIn of an existing session.
C20_TimeInImmutable ==
    [][\A i \in DOMAIN sessions \cap DOMAIN sessions' :
          sessions'[i].time_in = sessions[i].time_in]_vars

\* C20, with the operations that do overwrite it: timeIn is set at
\* creation to the instant of the punch; afterwards only updateSession
\* and bulkAdjust called with a timeIn change it, to the value they
\* were given, and no other operation does.
C20_TimeInChangedOnlyByEdit ==
    [][/\ \A i \in DOMAIN sessions' \ DOMAIN sessions :
            sessions'[i].time_in = clock
       /\ \A i \in DOMAIN sessions \cap DOMAIN sessions' :
            sessions'[i].time_in # sessions[i].time_in =>
              \/ /\ UpdateActivityWriteStep
                 /\ i = adm.id
                 /\ adm.data.time_in # NULL
                 /\ sessions'[i].time_in = adm.data.time_in
              \/ /\ call'.op = "bulk_adjust"
                 /\ i \in call'.ids
                 /\ call'.data.time_in # NULL
                 /\ sessions'[i].time_in = call'.data.time_in
      ]_vars

C20_Witness ==
    /\ call.op = "bulk_adjust"
    /\ call.data.time_in # NULL
    /\ \E i \in call.ids \cap DOMAIN sessions :
          /\ sessions[i].time_out = ZERO_DATE
          /\ sessions[i].time_in = call.data.time_in
          /\ sessions[i].time_in # FirstInstant

\* C21: the job stored in a session at punch-in is the assignment the
\* punch read for the account, and no later step (reassignment,
\* punch-out, sweep, maintenance) changes the job stored in a session.
C21_JobSnapshotKept ==
    [][/\ \A w \in Workers :
            (PunchReadStep(w) /\ pc'[w] = "insert") =>
               /\ req'[w].job = jobOf[req'[w].acct]
               /\ req'[w].job \in Jobs
       /\ \A i \in DOMAIN sessions' \ DOMAIN sessions :
            \E w \in Workers :
               /\ pc[w] = "insert"
               /\ sessions'[i].account = req[w].acct
               /\ sessions'[i].job = req[w].job
       /\ \A i \in DOMAIN sessions \cap DOMAIN sessions' :
            sessions'[i].job = sessions[i].job
      ]_vars

C21_Witness ==
    \E i \in DOMAIN sessions :
       /\ sessions[i].job = 1
       /\ sessions[i].auto_closed
       /\ jobOf[sessions[i].account] = 2

\* the table without its invalidated sessions
WithoutInvalidated(store) ==
    [i \in {k \in DOMAIN store : store[k].invalidated_at = NULL} |-> store[i]]

\* total_minutes the summary gives account a, 0 when it has no item
SummaryMinutes(items, a) ==
    IF a \in DOMAIN items THEN items[a].total_minutes ELSE 0

\* C22: an invalidated session contributes no minutes to a total of the
\* attendance summary, the performance view or the leaderboard: each
\* reported total is the one the same table without its invalidated
\* sessions gives.
C22_InvalidatedContributesNothing ==
    [][/\ view'.op = "summary" =>
            \A a \in Accounts :
               SummaryMinutes(view'.items, a) =
                 SummaryMinutes(SummaryOf(WithoutInvalidated(sessions), clock), a)
       /\ view'.op = "performance" =>
            \A a \in DOMAIN view'.items :
               view'.items[a].total_minutes =
                 PerformanceMinutes(WithoutInvalidated(sessions), a)
       /\ view'.op = "leaderboard" =>
            \A k \in DOMAIN view'.entries :
               view'.entries[k].total_minutes =
                 LeaderboardTotal(WithoutInvalidated(sessions), adjustments,
                                  view'.entries[k].id)
      ]_vars

\* the closed, non-invalidated sessions of account a
ClosedValidIdsOf(store, a) ==
    {i \in DOMAIN store :
        /\ store[i].account = a
        /\ store[i].time_out \notin {NULL, ZERO_DATE}
        /\ store[i].invalidated_at = NULL}

\* sum of timeOut - timeIn over them
ClosedValidMinutes(store, a) ==
    SumOf([i \in ClosedValidIdsOf(store, a) |->
             store[i].time_out - store[i].time_in],
          ClosedValidIdsOf(store, a))

\* signed sum of the TimeAdjustment minutes of account a
SignedAdjustments(adjs, a) ==
    SumOf([k \in {x \in DOMAIN adjs : adjs[x].account = a} |->
             adjs[k].minutes],
          {x \in DOMAIN adjs : adjs[x].account = a})

\* C23: for every account the performance view shows, the total it
\* renders is the sum of timeOut - timeIn over the account's closed,
\* non-invalidated sessions plus the signed sum of its adjustment minutes,
\* reported in hours rounded to two places; open sessions add nothing.
C23_PerformanceTotal ==
    [][view'.op = "performance" =>
         \A a \in DOMAIN view'.items :
            /\ view'.items[a].total_minutes = ClosedValidMinutes(sessions, a)
            /\ view'.items[a].adjustment_minutes =
                  SignedAdjustments(adjustments, a)
            /\ view'.items[a].total_rendered_hours =
                  HoursRounded(ClosedValidMinutes(sessions, a)
                                 + SignedAdjustments(adjustments, a))
      ]_vars

C23_Witness ==
    /\ view.op = "performance"
    /\ \E a \in DOMAIN view.items :
          /\ view.items[a].total_minutes = 20
          /\ view.items[a].adjustment_minutes = 60
          /\ view.items[a].total_rendered_hours = 133
          /\ OpenIdsOf(sessions, a) # {}

\* account a has a non-invalidated session whose timeOut is absent or the
\* legacy zero value
HasValidOpenSession(store, a) ==
    \E i \in DOMAIN store :
       /\ store[i].account = a
       /\ store[i].time_out \in {NULL, ZERO_DATE}
       /\ store[i].invalidated_at = NULL

\* C24: the performance view and the leaderboard report an account online
\* exactly when it has a non-invalidated open session, open meaning
\* timeOut absent or the legacy zero value, so that the two agree.
C24_OnlineAgreement ==
    [][/\ view'.op = "performance" =>
            \A a \in DOMAIN view'.items :
               view'.items[a].is_online = HasValidOpenSession(sessions, a)
       /\ view'.op = "leaderboard" =>
            \A k \in DOMAIN view'.entries :
               view'.entries[k].is_online =
                 HasValidOpenSession(sessions, view'.entries[k].id)
      ]_vars

\* C25: the leaderboard answers for every limit; the limit it applies lies
\* in 1..100, it returns at most that many entries, and a limit above 100
\* is applied as 100.
C25_LimitWithinRange ==
    /\ [](\A p \in LimitParams : ENABLED GetTopPerformers(p))
    /\ [][view'.op = "leaderboard" =>
            /\ view'.limit \in 1..MaxLimit
            /\ Len(view'.entries) <= view'.limit
            /\ (view'.param.given /\ view'.param.value > MaxLimit)
                 => view'.limit = MaxLimit
         ]_vars

C25_Witness ==
    /\ view.op = "leaderboard"
    /\ view.param.given
    /\ view.param.value = 500
    /\ view.limit = 100
    /\ Len(view.entries) = 2

\* C26 as stated: the applied limit is max(1, min(limit, 100)), 50 when
\* the limit is left out.
C26_LimitClamped ==
    [][view'.op = "leaderboard" =>
         view'.limit =
           IF ~view'.param.given THEN DefaultLimit
           ELSE IF view'.param.value > MaxLimit THEN MaxLimit
           ELSE IF view'.param.value < 1 THEN 1
           ELSE view'.param.value
      ]_vars

\* C26, with the floor the handler applies: a limit above 100 becomes 100,
\* a limit below 1 becomes 10, any other limit is applied as given, and a
\* limit left out is 50.
C26_LimitCappedOrFloored ==
    [][view'.op = "leaderboard" =>
         view'.limit =
           IF ~view'.param.given THEN DefaultLimit
           ELSE IF view'.param.value > MaxLimit THEN MaxLimit
           ELSE IF view'.param.value < 1 THEN FloorLimit
           ELSE view'.param.value
      ]_vars

C26_Witness ==
    /\ view.op = "leaderboard"
    /\ view.param.given
    /\ view.param.value = 0
    /\ view.limit = 10
    /\ Len(view.entries) = 2

\* total of account a in the performance view, in minutes
PerformanceTotal(store, adjs, a) ==
    PerformanceStat(store, adjs, a).total_minutes
      + PerformanceStat(store, adjs, a).adjustment_minutes

\* C27: creating or deleting a TimeAdjustment changes no session row and
\* changes the performance and leaderboard total of its account by
\* exactly the signed minutes of the adjustment, the total of no other
\* account.
C27_AdjustmentIsAdditive ==
    [][/\ call'.op \in {"create_adjustment", "delete_adjustment"} =>
            sessions' = sessions
       /\ (call'.op = "create_adjustment" /\ call'.id \in Accounts) =>
            \A a \in Accounts :
               LET d == IF a = call'.id THEN call'.minutes ELSE 0
               IN /\ PerformanceTotal(sessions', adjustments', a) =
                       PerformanceTotal(sessions, adjustments, a) + d
                  /\ LeaderboardTotal(sessions', adjustments', a) =
                       LeaderboardTotal(sessions, adjustments, a) + d
       /\ (call'.op = "delete_adjustment"
              /\ call'.id \in DOMAIN adjustments) =>
            \A a \in Accounts :
               LET d == IF a = adjustments[call'.id].account
                        THEN adjustments[call'.id].minutes ELSE 0
               IN /\ PerformanceTotal(sessions', adjustments', a) =
                       PerformanceTotal(sessions, adjustments, a) - d
                  /\ LeaderboardTotal(sessions', adjustments', a) =
                       LeaderboardTotal(sessions, adjustments, a) - d
      ]_vars

C27_Witness ==
    /\ call.op = "create_adjustment"
    /\ call.id \in Accounts
    /\ call.minutes = -30
    /\ ClosedValidMinutes(sessions, call.id) = 20
    /\ PerformanceTotal(sessions, adjustments, call.id) = -10

\* C28: a session targeted by bulkInvalidate is seen only as it was before
\* the operation or closed and invalidated: the store a reader or a punch
\* finds after a statement of bulkInvalidate holds every targeted session
\* in one of these two states.
C28_NoIntermediateState ==
    [][call'.op = "bulk_invalidate" =>
         \A i \in call'.ids \cap DOMAIN sessions :
            \/ sessions'[i] = sessions[i]
            \/ /\ sessions'[i].time_out \notin {NULL, ZERO_DATE}
               /\ sessions'[i].invalidated_at # NULL
      ]_vars

\* the sessions of account a with the latest time_in
MostRecentIds(a) ==
    {i \in DOMAIN sessions :
        /\ sessions[i].account = a
        /\ \A j \in DOMAIN sessions :
              sessions[j].account = a
              => sessions[j].time_in <= sessions[i].time_in}

\* C29 as stated: a punch takes the time-out path exactly when the
\* account's most recent session by timeIn is open and its timeIn lies on
\* the local calendar day of now; otherwise it takes the time-in path.
C29_TimeOutPathOnMostRecent ==
    [][\A w \in Workers :
         (PunchReadStep(w)
            /\ response' \notin {"AccountNotFound", "AccountSuspended"}) =>
           \A a \in PunchingAccounts :
              LET timeOutPath == \/ response' = "EarlyTimeoutWarning"
                                 \/ pc'[w] = "update"
                  timeInPath == \/ response' = "AccountJobless"
                                \/ pc'[w] = "insert"
              IN /\ timeOutPath <=>
                      \E i \in MostRecentIds(a) :
                         /\ IsOpen(sessions[i])
                         /\ LocalDateOf(sessions[i].time_in)
                              = LocalDateOf(clock)
                 /\ timeInPath <=> ~timeOutPath
      ]_vars

\* C29, with the lookup the handler makes: a punch takes the time-out path
\* exactly when the account has an open session and the one with the
\* latest timeIn among its open sessions started on the local calendar
\* day of now, whatever closed sessions it has; otherwise it takes the
\* time-in path.
C29_TimeOutPathOnLatestOpen ==
    [][\A w \in Workers :
         (PunchReadStep(w)
            /\ response' \notin {"AccountNotFound", "AccountSuspended"}) =>
           \A a \in PunchingAccounts :
              LET timeOutPath == \/ response' = "EarlyTimeoutWarning"
                                 \/ pc'[w] = "update"
                  timeInPath == \/ response' = "AccountJobless"
                                \/ pc'[w] = "insert"
              IN /\ timeOutPath <=>
                      \E i \in LatestOpenIds(a) :
                         LocalDateOf(sessions[i].time_in) = LocalDateOf(clock)
                 /\ timeInPath <=> ~timeOutPath
      ]_vars

C29_Witness ==
    /\ response = "EarlyTimeoutWarning"
    /\ \E a \in PunchingAccounts :
          \E i \in OpenIdsOf(sessions, a), j \in DOMAIN sessions :
             /\ sessions[j].account = a
             /\ ~IsOpen(sessions[j])
             /\ sessions[j].time_in > sessions[i].time_in
             /\ LocalDateOf(sessions[i].time_in) = LocalDateOf(clock)

\* The single-item operation on session id, its read and its write run one
\* after the other
SingleOp(op, store, id, data, now) ==
    IF id \notin DOMAIN store THEN store
    ELSE IF op = "delete" THEN DeleteRows(store, {id})
    ELSE [store EXCEPT ![id] =
            IF op = "invalidate"
            THEN InvalidateRow(store[id], IsOpen(store[id]),
                               store[id].time_in, now, AdminNotes)
            ELSE IF op = "revalidate" THEN RevalidateRow(store[id])
            ELSE IF UpdateCheck(id, data) = "ok" THEN UpdateRow(store[id], data)
            ELSE store[id]]

RECURSIVE EachInTurn(_, _, _, _, _)
\* ... applied to each id of ids in turn
EachInTurn(op, store, ids, data, now) ==
    IF ids = {} THEN store
    ELSE LET id == CHOOSE x \in ids : TRUE
         IN EachInTurn(op, SingleOp(op, store, id, data, now), ids \ {id},
                       data, now)

\* what the second statement of bulk_invalidate makes of a table
MarkAll(store, ids, now) ==
    [i \in DOMAIN store |->
       IF i \in ids THEN BulkMarkRow(store[i], now, AdminNotes) ELSE store[i]]

\* C30: on a set of existing session ids each bulk operation leaves every
\* session as the single-item operation applied to each id in turn does:
\* bulkRevalidate as revalidate, bulkDelete as deleteSession, bulkAdjust
\* as updateSession with the same fields, and bulkInvalidate, its second
\* statement following its first, as invalidate.
C30_BulkAsSingleInTurn ==
    [][(call'.op \in BulkOps /\ call'.ids # {}
          /\ call'.ids \subseteq DOMAIN sessions) =>
         /\ call'.op = "bulk_revalidate" =>
              sessions' = EachInTurn("revalidate", sessions, call'.ids,
                                     NoData, clock)
         /\ call'.op = "bulk_delete" =>
              sessions' = EachInTurn("delete", sessions, call'.ids,
                                     NoData, clock)
         /\ call'.op = "bulk_adjust" =>
              sessions' = EachInTurn("update", sessions, call'.ids,
                                     call'.data, clock)
         /\ call'.op = "bulk_invalidate" =>
              MarkAll(sessions', call'.ids, clock) =
                EachInTurn("invalidate", sessions, call'.ids, NoData, clock)
      ]_vars

C30_Witness ==
    /\ adm.pc = "bulk_invalidate"
    /\ call.op = "bulk_invalidate"
    /\ Cardinality(call.ids) = 2
    /\ call.ids \subseteq DOMAIN sessions
    /\ \E i \in call.ids, j \in call.ids :
          /\ sessions[i].time_out = sessions[i].time_in + AutoFillMinutes
          /\ sessions[j].time_out # sessions[j].time_in + AutoFillMinutes
\* ---------------------------------------------------------------- C31
\* C31: two executions of the auto-close sweep never overlap: a schedule
\* tick does not start a sweep while a previous run is still in progress,
\* and a run is started by nothing other than a schedule tick, that is, a
\* step taken when the fire time has come and that moves the job on to its
\* next fire time.
C31_SweepSingleFlight ==
    /\ [](Len(sweeps) <= 1)
    /\ [][Len(sweeps') > Len(sweeps) =>
            /\ sweeps = <<>>
            /\ clock >= nextRunTime
            /\ nextRunTime' = NextFireTime(clock)]_vars

\* a run that started on an earlier day is still in progress after the
\* fire time of the following day has come and gone: that tick was skipped
C31_Witness ==
    /\ Len(sweeps) = 1
    /\ sweeps[1] + MinutesPerDay < nextRunTime

C33_TimeOutAnswerIsStored ==
    [][\A w \in Workers :
         (PunchUpdateStep(w) /\ response' = "time_out") =>
            \E i \in DOMAIN sessions :
               /\ sessions[i].account = req[w].acct
               /\ IsOpen(sessions[i])
               /\ sessions'[i].time_out = req[w].now
      ]_vars

\* ---------------------------------------------------------------- C34
\* C34: punch and sweep never change the timeOut or the invalidation
\* fields of a session that is already closed, whatever punches, sweeps
\* and maintenance operations are interleaved: their updates apply only to
\* sessions that are open at the moment of the write.
C34_ClosedSessionsUntouched ==
    [][((\E w \in Workers : PunchUpdateStep(w) \/ PunchInsertStep(w))
          \/ SweepStep)
        => \A i \in DOMAIN sessions :
              ~IsOpen(sessions[i]) =>
                 /\ i \in DOMAIN sessions'
                 /\ sessions'[i].time_out = sessions[i].time_out
                 /\ sessions'[i].invalidated_at = sessions[i].invalidated_at
                 /\ sessions'[i].invalidation_notes =
                      sessions[i].invalidation_notes
      ]_vars

\* a punch-out has just closed one session of an account that also has a
\* session closed earlier
C34_Witness ==
    /\ response = "time_out"
    /\ \E i, j \in DOMAIN sessions :
          /\ sessions[i].account = sessions[j].account
          /\ sessions[i].time_out = clock
          /\ ~IsOpen(sessions[j])
          /\ sessions[j].time_out < clock

\* ---------------------------------------------------------------- C35
\* C35: invalidate(id) never replaces a timeOut written by a punch-out, a
\* sweep or a bulkClose: a session that is closed when invalidate's update
\* runs keeps its timeOut, also when it was still open at invalidate's read.
C35_InvalidateKeepsTimeOut ==
    [][InvalidateWriteStep =>
         \A i \in DOMAIN sessions \cap DOMAIN sessions' :
            ~IsOpen(sessions[i]) =>
               sessions'[i].time_out = sessions[i].time_out
      ]_vars

\* ---------------------------------------------------------------- C36
\* C36: in every reachable state, under any interleaving, no session is
\* both open and invalidated: invalidatedAt present implies timeOut present.
C36_NoOpenInvalidatedSession ==
    \A i \in DOMAIN sessions :
       sessions[i].invalidated_at # NULL => ~IsOpen(sessions[i])

\* ---------------------------------------------------------------- C37
\* C37: for every run instant, a run before local 23:00 and a delayed run
\* after local midnight included, the sweep never writes a timeOut later
\* than its own run instant.
C37_SweepTimeOutNotInFuture ==
    [][SweepStep =>
         \A i \in DOMAIN sessions :
            sessions'[i].time_out # sessions[i].time_out =>
               sessions'[i].time_out <= clock
      ]_vars

\* ---------------------------------------------------------------- C38
\* C38: the overdue count and the punch same-day guard classify sessions
\* identically: an open, non-invalidated session is counted as overdue
\* exactly when a punch at the same instant would discard it as stale, its
\* timeIn lying on an earlier local calendar day than now.
C38_OverdueMatchesPunchGuard ==
    [][view'.op = "overdue" =>
         view'.count =
           Cardinality({i \in DOMAIN sessions :
                           /\ IsOpen(sessions[i])
                           /\ sessions[i].invalidated_at = NULL
                           /\ ActiveSession(sessions[i].time_in, clock) = NULL})
      ]_vars

\* ---------------------------------------------------------------- C39
\* C39: after any sequence of create, cancel, approve and reject
\* operations, listing the requests with status filter S returns exactly
\* the requests whose derived status (Cancelled before Rejected before
\* Approved before Pending, computed from the timestamp fields) is S.
C39_ListMatchesDerivedStatus ==
    [][(view'.op = "requests" /\ view'.filter # "None") =>
         /\ DOMAIN view'.items =
              {i \in DOMAIN requests :
                  derive_status(requests[i]) = view'.filter}
         /\ \A i \in DOMAIN view'.items : view'.items[i] = view'.filter
      ]_vars

====
